---- MODULE Spec2Model ----
(***************************************************************************)
(* Authoritative arena game server (qron): the match simulation (Game),    *)
(* the participant entity (Player), the bot controller (BotAI), the lobby  *)
(* coordinator (GameManager), the anti-cheat filter (AntiCheat) and the    *)
(* socket handlers of server/index.ts, as one state machine.               *)
(*                                                                         *)
(* JavaScript numbers are IEEE-754 doubles.  The quantities the code keeps *)
(* as fractions (subStep, gameSpeed, arenaSize, prize shares) are modelled *)
(* as doubles: a value is the triple <<h, m, l>> of base-2^22 limbs of the *)
(* integer value * 2^61, and every arithmetic result is rounded to 53      *)
(* significant bits, ties to even, as the hardware does.                   *)
(***************************************************************************)
EXTENDS Integers, Sequences, FiniteSets, TLC

\* ------------------------------------------------------------------------
\* IEEE-754 doubles (non-negative, below 2^9, multiples of 2^-61)
\* ------------------------------------------------------------------------

LimbBase == 2^22

IntScale == 2^17

\* the function f on 1..n as the sequence value <<f[1], ..., f[n]>>
AsSeq(f) == f \o <<>>

RECURSIVE Pow2(_)
Pow2(k) == IF k <= 0 THEN 1 ELSE 2 * Pow2(k - 1)

RECURSIVE BitLen(_)
BitLen(n) == IF n <= 0 THEN 0 ELSE 1 + BitLen(n \div 2)

\* the double of a small non-negative integer
FInt(n) == <<n * IntScale, 0, 0>>

FZero == <<0, 0, 0>>

FLt(a, b) ==
    \/ a[1] < b[1]
    \/ a[1] = b[1] /\ a[2] < b[2]
    \/ a[1] = b[1] /\ a[2] = b[2] /\ a[3] < b[3]

FLe(a, b) == a = b \/ FLt(a, b)

FMax(a, b) == IF FLt(a, b) THEN b ELSE a

FMin(a, b) == IF FLt(b, a) THEN b ELSE a

\* the carry of the middle limb into the high one
CarryHigh(h, m1, l) == <<h + (m1 \div LimbBase), m1 % LimbBase, l>>

\* limbs back into range after an exact sum
FCarry(x) == CarryHigh(x[1], x[2] + (x[3] \div LimbBase), x[3] % LimbBase)

\* the quotient q of the low limb by the unit u of the last kept bit, rounded to
\* nearest, ties to even: r is the remainder, sticky tells that something
\* non-zero lies below the low limb
RoundUnit(q, r, u, sticky) ==
    IF 2 * r > u \/ (2 * r = u /\ (sticky \/ q % 2 = 1)) THEN q + 1 ELSE q

\* x with the bits below u (a power of two within the low limb) rounded away
RoundAt(x, u, sticky) ==
    FCarry(<<x[1], x[2], RoundUnit(x[3] \div u, x[3] % u, u, sticky) * u>>)

\* round an exact value to 53 significant bits, ties to even
FRound(x) == IF BitLen(x[1]) <= 9 THEN x ELSE RoundAt(x, Pow2(BitLen(x[1]) - 9), FALSE)

FAddExact(a, b) == FCarry(<<a[1] + b[1], a[2] + b[2], a[3] + b[3]>>)

\* the borrow of the middle limb from the high one (m1 and l1 may be negative)
BorrowHigh(h, m1, l1) ==
    <<h - (IF m1 < 0 THEN 1 ELSE 0), (m1 + LimbBase) % LimbBase, (l1 + LimbBase) % LimbBase>>

\* a - b for a >= b, exact
FSubExact(a, b) ==
    BorrowHigh(a[1] - b[1], a[2] - b[2] - (IF a[3] < b[3] THEN 1 ELSE 0), a[3] - b[3])

\* a + b as the hardware computes it
FAdd(a, b) == FRound(FAddExact(a, b))

\* a - b (a >= b) as the hardware computes it
FSub(a, b) == FRound(FSubExact(a, b))

\* long division of the limbs by n: the quotient's limbs, and whether a
\* remainder is left
DivLow(qh, qm, rl, n) == [q |-> <<qh, qm, rl \div n>>, sticky |-> rl % n # 0]

DivMid(qh, rm, l, n) == DivLow(qh, rm \div n, (rm % n) * LimbBase + l, n)

RoundQuotient(d) == RoundAt(d.q, Pow2(BitLen(d.q[1]) - 9), d.sticky)

\* a / n for an integer 0 < n < 2^9 and a >= 2^-8 * n, as the hardware computes it
FDivInt(a, n) ==
    RoundQuotient(DivMid(a[1] \div n, (a[1] % n) * LimbBase + a[2], a[3], n))

\* a / 2 (exact: the values halved here are multiples of 2^-60)
FHalf(a) ==
    <<a[1] \div 2,
      (a[2] \div 2) + (a[1] % 2) * (LimbBase \div 2),
      (a[3] \div 2) + (a[2] % 2) * (LimbBase \div 2)>>

\* the double whose value * 2^61 is 2^e
FBit(e) ==
    IF e < 22 THEN <<0, 0, Pow2(e)>>
    ELSE IF e < 44 THEN <<0, Pow2(e - 22), 0>>
    ELSE <<Pow2(e - 44), 0, 0>>

\* bits of n, most significant first
RECURSIVE IntBits(_)
IntBits(n) == IF n = 0 THEN <<>> ELSE IntBits(n \div 2) \o <<n % 2>>

\* the first n base-256 digits of r/den (r < den), most significant first
RECURSIVE FracDigits(_, _, _)
FracDigits(r, den, n) ==
    IF n = 0 THEN <<>>
    ELSE <<(256 * r) \div den>> \o FracDigits((256 * r) % den, den, n - 1)

\* what is left of r/den after n base-256 digits
RECURSIVE FracRem(_, _, _)
FracRem(r, den, n) == IF n = 0 THEN r ELSE FracRem((256 * r) % den, den, n - 1)

\* the binary digits of a base-256 digit sequence
DigitBits(d) ==
    AsSeq([j \in 1..(8 * Len(d)) |-> (d[((j - 1) \div 8) + 1] \div Pow2(7 - ((j - 1) % 8))) % 2])

\* index of the first 1 of B (Len(B) + 1 when there is none)
SkipZeros(B) ==
    IF \E j \in 1..Len(B) : B[j] = 1
    THEN CHOOSE j \in 1..Len(B) : B[j] = 1 /\ \A k \in 1..(j - 1) : B[k] = 0
    ELSE Len(B) + 1

\* bits e .. e + n - 1 (in units of 2^-61) of B[from..to] as an integer, B[1] worth 2^top
RECURSIVE Horner(_, _, _, _, _, _)
Horner(B, top, from, to, e, n) ==
    IF n = 0 THEN 0
    ELSE (IF top + 1 - e >= from /\ top + 1 - e <= to THEN B[top + 1 - e] ELSE 0)
         + 2 * Horner(B, top, from, to, e + 1, n - 1)

\* sum of B[j] * 2^(top + 1 - j) for j in from..to, as an exact triple
SumBits(B, top, from, to) ==
    <<Horner(B, top, from, to, 44, 30),
      Horner(B, top, from, to, 22, 22),
      Horner(B, top, from, to, 0, 22)>>

\* the 53 kept bits, one unit of the last place (2^e) more when rounding up
RoundKept(kept, up, e) == IF up THEN FAddExact(kept, FBit(e)) ELSE kept

\* B rounded to the 53 bits from its first 1 (at index s) on, ties to even:
\* up when the bit after them is 1 and either something follows or the last
\* kept bit is 1
RoundBits(B, top, s, more) ==
    IF s > Len(B) THEN FZero
    ELSE IF s + 52 >= Len(B) THEN SumBits(B, top, s, Len(B))
    ELSE RoundKept(SumBits(B, top, s, s + 52),
                   B[s + 53] = 1 /\ (more \/ B[s + 52] = 1
                                     \/ \E j \in (s + 54)..Len(B) : B[j] = 1),
                   top - 51 - s)

\* The double nearest to the binary expansion B (most significant bit first,
\* B[1] worth 2^top in units of 2^-61), more = something non-zero follows B.
BitsToDouble(B, top, more) == RoundBits(B, top, SkipZeros(B), more)

GuardDigits == 9

\* the double of the integer bits ib followed by the fraction r/den
DblOf(ib, r, den) ==
    BitsToDouble(ib \o DigitBits(FracDigits(r, den, GuardDigits)), Len(ib) + 60,
                 FracRem(r, den, GuardDigits) # 0)

\* the double a decimal literal num/den denotes
Dbl(num, den) == DblOf(IntBits(num \div den), num % den, den)

\* base-2^11 digits of a triple, least significant first
Digits11(a) ==
    <<a[3] % 2048, a[3] \div 2048, a[2] % 2048, a[2] \div 2048,
      a[1] % 2048, (a[1] \div 2048) % 2048, a[1] \div 4194304>>

\* column k of the schoolbook product of two digit sequences
Term(da, db, k, i) == IF k + 1 - i \in 1..7 THEN da[i] * db[k + 1 - i] ELSE 0

Column(da, db, k) ==
    Term(da, db, k, 1) + Term(da, db, k, 2) + Term(da, db, k, 3) + Term(da, db, k, 4)
    + Term(da, db, k, 5) + Term(da, db, k, 6) + Term(da, db, k, 7)

Columns(da, db) == AsSeq([k \in 1..13 |-> Column(da, db, k)])

\* the columns with their carries propagated: base-2^11 digits of the product
RECURSIVE Propagate(_, _, _)
Propagate(cols, k, carry) ==
    IF k > Len(cols) THEN <<carry>>
    ELSE <<(cols[k] + carry) % 2048>> \o Propagate(cols, k + 1, (cols[k] + carry) \div 2048)

\* the n bits of the digit sequence p, most significant first
ProductBits(p, n) ==
    AsSeq([j \in 1..n |-> (p[((n - j) \div 11) + 1] \div Pow2((n - j) % 11)) % 2])

ProductDouble(p) == BitsToDouble(ProductBits(p, 11 * Len(p)), 11 * Len(p) - 62, FALSE)

\* a * b as the hardware computes it (exact product of two doubles, rounded)
FMul(a, b) == ProductDouble(Propagate(Columns(Digits11(a), Digits11(b)), 1, 0))

\* ------------------------------------------------------------------------
\* Doubles of any magnitude: the record [t, s] stands for t * 2^s, t being the
\* limb triple of an integer of 53 significant bits that is kept in
\* [2^65, 2^66); the zero is XZero.  Used where the code computes with values
\* that the limbs above cannot hold (the interval statistics of AntiCheat).
\* ------------------------------------------------------------------------

XZero == [t |-> FZero, s |-> 0]

\* the number of bits of the integer the triple t holds
TopBit(t) ==
    IF t[1] > 0 THEN 44 + BitLen(t[1])
    ELSE IF t[2] > 0 THEN 22 + BitLen(t[2])
    ELSE BitLen(t[3])

\* the limbs of t moved up by q places, and then by r < 22 bits (nothing is
\* shifted out at the top)
UpLimbs(t, q) ==
    IF q = 0 THEN t
    ELSE IF q = 1 THEN <<t[2], t[3], 0>>
    ELSE <<t[3], 0, 0>>

UpBits(t, r) ==
    <<t[1] * Pow2(r) + t[2] \div Pow2(22 - r),
      (t[2] % Pow2(22 - r)) * Pow2(r) + t[3] \div Pow2(22 - r),
      (t[3] % Pow2(22 - r)) * Pow2(r)>>

\* t * 2^k
ShiftUp(t, k) == UpBits(UpLimbs(t, k \div 22), k % 22)

\* the limbs of t moved down by q places, and then by r < 22 bits; sticky tells
\* that a 1 was shifted out
DownLimbs(t, q) ==
    IF q = 0 THEN [t |-> t, sticky |-> FALSE]
    ELSE IF q = 1 THEN [t |-> <<0, t[1], t[2]>>, sticky |-> t[3] # 0]
    ELSE IF q = 2 THEN [t |-> <<0, 0, t[1]>>, sticky |-> t[2] # 0 \/ t[3] # 0]
    ELSE [t |-> FZero, sticky |-> t # FZero]

DownBits(d, r) ==
    [t |-> <<d.t[1] \div Pow2(r),
             (d.t[1] % Pow2(r)) * Pow2(22 - r) + d.t[2] \div Pow2(r),
             (d.t[2] % Pow2(r)) * Pow2(22 - r) + d.t[3] \div Pow2(r)>>,
     sticky |-> d.sticky \/ d.t[3] % Pow2(r) # 0]

\* t / 2^k, rounded down
ShiftDown(t, k) == DownBits(DownLimbs(t, k \div 22), k % 22)

\* the record of t * 2^s, t holding no more than 53 significant bits
XNorm(t, s) ==
    IF t = FZero THEN XZero
    ELSE IF TopBit(t) >= 66
    THEN [t |-> ShiftDown(t, TopBit(t) - 66).t, s |-> s + (TopBit(t) - 66)]
    ELSE [t |-> ShiftUp(t, 66 - TopBit(t)), s |-> s - (66 - TopBit(t))]

\* t rounded to 53 significant bits, sticky telling that something lies below it
XRound(t, sticky) ==
    IF TopBit(t) <= 53 THEN t ELSE RoundAt(t, Pow2(TopBit(t) - 53), sticky)

\* the double of the integer 0 <= v < 2^31
XInt(v) == XNorm(<<0, v \div LimbBase, v % LimbBase>>, 0)

XLt(a, b) ==
    /\ b # XZero
    /\ \/ a = XZero
       \/ a.s < b.s
       \/ a.s = b.s /\ FLt(a.t, b.t)

\* a + d.t * 2^a.s, d being the smaller summand shifted to the scale of a
XAddShifted(a, d) == XNorm(XRound(FAddExact(a.t, d.t), d.sticky), a.s)

\* a + b for a >= b > 0
XAddOrdered(a, b) == XAddShifted(a, ShiftDown(b.t, a.s - b.s))

\* a + b as the hardware computes it
XAdd(a, b) ==
    IF a = XZero THEN b
    ELSE IF b = XZero THEN a
    ELSE IF XLt(a, b) THEN XAddOrdered(b, a) ELSE XAddOrdered(a, b)

\* x less what was shifted out of the subtrahend: one unit less, and something
\* above it
XBelow(x, sticky) == IF sticky THEN FSubExact(x, <<0, 0, 1>>) ELSE x

XSubShifted(a, d) == XNorm(XRound(XBelow(FSubExact(a.t, d.t), d.sticky), d.sticky), a.s)

\* a - b for a >= b > 0
XSubOrdered(a, b) == XSubShifted(a, ShiftDown(b.t, a.s - b.s))

\* |a - b| as the hardware computes a - b
XAbsDiff(a, b) ==
    IF a = b THEN XZero
    ELSE IF a = XZero THEN b
    ELSE IF b = XZero THEN a
    ELSE IF XLt(a, b) THEN XSubOrdered(b, a) ELSE XSubOrdered(a, b)

\* a * b as the hardware computes it
XMul(a, b) ==
    IF a = XZero \/ b = XZero THEN XZero
    ELSE XNorm(FMul(a.t, b.t), a.s + b.s + 61)

\* a / n for an integer 0 < n < 2^9, as the hardware computes it
XDivInt(a, n) == IF a = XZero THEN XZero ELSE XNorm(FDivInt(a.t, n), a.s)

\* ------------------------------------------------------------------------
\* Mode catalog (GAME_MODES), in the catalog's key order
\* ------------------------------------------------------------------------

ModeOrder == <<"duel", "squad", "ranked", "arena">>

ModeIds == {"duel", "squad", "ranked", "arena"}

PRIZE_DUEL == Dbl(90, 100)

PRIZE_SQUAD == Dbl(180, 100)

PRIZE_RANKED == Dbl(720, 100)

PRIZE_ARENA == Dbl(900, 100)

GAME_MODES ==
    [duel   |-> [id |-> "duel",   players |-> 2,  gridSize |-> 36,  prize |-> PRIZE_DUEL],
     squad  |-> [id |-> "squad",  players |-> 4,  gridSize |-> 52,  prize |-> PRIZE_SQUAD],
     ranked |-> [id |-> "ranked", players |-> 8,  gridSize |-> 84,  prize |-> PRIZE_RANKED],
     arena  |-> [id |-> "arena",  players |-> 10, gridSize |-> 112, prize |-> PRIZE_ARENA]]

\* the mode a join request without a (known) mode falls back to
DEFAULT_MODE == "arena"

\* Game constants
TICK_RATE == 20

MIN_SPEED == Dbl(3, 10)

MAX_SPEED == Dbl(7, 10)

SPEED_INCREMENT == Dbl(5, 100)

SPEED_INCREASE_INTERVAL == 5000

BROADCAST_INTERVAL == 25

COUNTDOWN_MS == 3500

FOne == FInt(1)

\* GameManager constants
LOBBY_TIMEOUT == 15000

\* AntiCheat constants
MAX_WARNINGS == 3

MIN_INPUT_DELAY == 50

HISTORY_LIMIT == 20

PATTERN_MIN_INPUTS == 10

PATTERN_STDDEV == 10

\* BotAI constants
LOOK_AHEAD == 5

DANGER_THRESHOLD == 3

BOT_THINK_INTERVAL == 3

CHECK_RADIUS == 3

NEAR_MISS_RADIUS == 2

\* shrink rate per tick, by grid size (Game constructor)
SHRINK_SMALL == Dbl(2, 1000)

SHRINK_SQUAD == Dbl(3, 1000)

SHRINK_RANKED == Dbl(4, 1000)

SHRINK_ARENA == Dbl(5, 1000)

shrinkRate(gridSize) ==
    IF gridSize <= 40 THEN SHRINK_SMALL
    ELSE IF gridSize <= 55 THEN SHRINK_SQUAD
    ELSE IF gridSize <= 90 THEN SHRINK_RANKED
    ELSE SHRINK_ARENA

QUARTER == Dbl(25, 100)

\* gridSize * 0.25, the floor of the arena edge
minSize(gridSize) == FMul(FInt(gridSize), QUARTER)

\* ------------------------------------------------------------------------
\* Bounds of the model
\* ------------------------------------------------------------------------

\* ticks a match may run
MaxTick == 67

\* the tick from which the steering socket sends inputs
InputsFrom == 60

\* the tick from which a socket may leave
LeaveFrom == 57

\* directional inputs the sockets may send in all
MaxInputs == 2

\* join requests the sockets may send in all
MaxJoins == 4

\* matches created in all
MaxMatches == 1

\* lobby sweeps in all
MaxSweeps == 1

Sockets == {"s1", "s2", "s3", "s4", "s5", "s6", "s7", "s8"}

\* participant ids: a socket id, or the id fillWithBots builds,
\* bot_<modeId>_<Date.now()>_<i>
SockId(s) == <<"sock", s, 0, 0>>

BotId(modeId, t, i) == <<"bot", modeId, t, i>>

\* game_<modeId>_<Date.now()>
GameId(modeId, t) == <<modeId, t>>

NoGame == <<"none", 0>>

Directions == {"up", "down", "left", "right"}

\* ------------------------------------------------------------------------
\* State
\* ------------------------------------------------------------------------

VARIABLES
    now,            \* Date.now(), ms
    demoMode,       \* GameManager.DEMO_MODE
    conn,           \* socket -> "new" | "up" | "gone"
    online,         \* onlinePlayersCount
    lobbies,        \* modeId -> the lobby Map, as the sequence of its Players
    playerToLobby,  \* Map participant id -> modeId
    playerToGame,   \* Map participant id -> gameId
    games,          \* Map gameId -> match (an index into matches)
    matches,        \* every Game object created so far
    acData,         \* AntiCheat.playerData: Map socket id -> PlayerData
    sweepDue,       \* when the periodic lobby check fires next
    out,            \* the events the last handler emitted
    sent,           \* how much the environment and the loop timers have done so far
    env             \* what the environment may do; fixed at Init

vars == <<now, demoMode, conn, online, lobbies, playerToLobby, playerToGame,
          games, matches, acData, sweepDue, out, sent, env>>

\* ------------------------------------------------------------------------
\* Maps
\* ------------------------------------------------------------------------

MapSet(m, k, v) == [x \in (DOMAIN m) \cup {k} |-> IF x = k THEN v ELSE m[x]]

MapDel(m, k) == [x \in (DOMAIN m) \ {k} |-> m[x]]

EmptyMap == [x \in {} |-> 0]

\* index of the entry with id k in an insertion-ordered Map kept as a sequence, 0 if none
IndexOf(seq, k) ==
    IF \E i \in 1..Len(seq) : seq[i].id = k
    THEN CHOOSE i \in 1..Len(seq) : seq[i].id = k
    ELSE 0

\* Map.set on an insertion-ordered Map: a known key keeps its place
SeqSet(seq, p) ==
    LET i == IndexOf(seq, p.id)
    IN IF i = 0 THEN Append(seq, p) ELSE [seq EXCEPT ![i] = p]

\* Map.delete
SeqDel(seq, k) ==
    LET i == IndexOf(seq, k)
    IN IF i = 0 THEN seq
       ELSE SubSeq(seq, 1, i - 1) \o SubSeq(seq, i + 1, Len(seq))

Ids(seq) == {seq[i].id : i \in 1..Len(seq)}

Abs(n) == IF n < 0 THEN -n ELSE n

Min2(a, b) == IF a < b THEN a ELSE b

\* ------------------------------------------------------------------------
\* Player
\* ------------------------------------------------------------------------

\* new Player(id, wallet, name, isBot): position (0,0), heading (1,0)
NewPlayer(id, isBot, t) ==
    [id |-> id, isBot |-> isBot, joinedAt |-> t,
     position |-> <<0, 0>>, direction |-> <<1, 0>>, trail |-> <<>>,
     alive |-> TRUE, subStep |-> FZero, survivalTime |-> 0,
     lastInputTime |-> 0, kills |-> 0]

setPosition(p, x, y) == [p EXCEPT !.position = <<x, y>>]

\* a heading is replaced unless the new one is its exact reverse
setDirection(p, dx, dy) ==
    IF p.direction[1] + dx # 0 \/ p.direction[2] + dy # 0
    THEN [p EXCEPT !.direction = <<dx, dy>>]
    ELSE p

addTrailSegment(p) == [p EXCEPT !.trail = Append(p.trail, p.position)]

\* mutant: the trail of an eliminated participant is wiped
eliminateClearsTrail(p) == [p EXCEPT !.alive = FALSE, !.trail = <<>>]

eliminate(p) == [p EXCEPT !.alive = FALSE]

\* ------------------------------------------------------------------------
\* Game
\* ------------------------------------------------------------------------

\* Spawn cells of initializePlayerPositions:
\*   x = floor(center + cos(index * 2*PI/n - PI/2) * gridSize * 0.35)
\*   y = floor(center + sin(index * 2*PI/n - PI/2) * gridSize * 0.35)
\* evaluated in double precision for the four configured (gridSize, n).
SpawnCells ==
    [duel   |-> << <<18, 5>>, <<18, 30>> >>,
     squad  |-> << <<26, 7>>, <<44, 26>>, <<26, 44>>, <<7, 26>> >>,
     ranked |-> << <<42, 12>>, <<62, 21>>, <<71, 42>>, <<62, 62>>,
                   <<42, 71>>, <<21, 62>>, <<12, 42>>, <<21, 21>> >>,
     arena  |-> << <<56, 16>>, <<79, 24>>, <<93, 43>>, <<93, 68>>, <<79, 87>>,
                   <<56, 95>>, <<32, 87>>, <<18, 68>>, <<18, 43>>, <<32, 24>> >>]

\* the heading initializePlayerPositions asks for: toward the center along the
\* axis of larger displacement, vertical on a tie
TowardCenter(gridSize, x, y) ==
    LET center2 == gridSize          \* 2 * center, to stay in integers
        dx2 == center2 - 2 * x
        dy2 == center2 - 2 * y
    IN IF Abs(dx2) > Abs(dy2)
       THEN <<IF dx2 > 0 THEN 1 ELSE -1, 0>>
       ELSE <<0, IF dy2 > 0 THEN 1 ELSE -1>>

\* setPosition, addTrailSegment and setDirection for the participant of one index
spawnAt(p, gridSize, c) ==
    setDirection(addTrailSegment(setPosition(p, c[1], c[2])),
                 TowardCenter(gridSize, c[1], c[2])[1],
                 TowardCenter(gridSize, c[1], c[2])[2])

initializePlayerPositions(modeId, gridSize, players) ==
    AsSeq([i \in 1..Len(players) |-> spawnAt(players[i], gridSize, SpawnCells[modeId][i])])

\* new Game(id, players, io, mode)
NewGame(id, mode, players) ==
    [id |-> id, mode |-> mode.id, gridSize |-> mode.gridSize,
     arenaSize |-> FInt(mode.gridSize),
     shrinkRate |-> shrinkRate(mode.gridSize),
     players |-> initializePlayerPositions(mode.id, mode.gridSize, players),
     state |-> "waiting", timer |-> "none", due |-> 0, startTime |-> 0,
     gameSpeed |-> MIN_SPEED, tickCounter |-> 0, botTick |-> 0,
     shrinkPhase |-> "stable", lastBroadcastTime |-> 0,
     lastSpeedIncreaseTime |-> 0]

\* the sockets a broadcast of the match reaches: every participant that is not a bot
Recipients(g) == {g.players[i].id : i \in {j \in 1..Len(g.players) : ~g.players[j].isBot}}

AliveCount(g) == Cardinality({i \in 1..Len(g.players) : g.players[i].alive})

limitOf(g) == FHalf(FSub(FInt(g.gridSize), g.arenaSize))

\* v < limit, for an integer cell coordinate v
BelowLimit(v, limit) == v < 0 \/ FLt(FInt(v), limit)

\* the inset of the arena on both sides: cells below limit, or at or beyond
\* gridSize - limit, are outside
boundsOf(gridSize, limit) ==
    [limit |-> limit, gridSize |-> gridSize, far |-> FSub(FInt(gridSize), limit)]

arenaBounds(g) == boundsOf(g.gridSize, limitOf(g))

\* x < limit || x >= gridSize - limit || y < limit || y >= gridSize - limit
OutOfBounds(b, x, y) ==
    \/ BelowLimit(x, b.limit) \/ (x >= 0 /\ FLe(b.far, FInt(x)))
    \/ BelowLimit(y, b.limit) \/ (y >= 0 /\ FLe(b.far, FInt(y)))

OutOfArena(g, x, y) == OutOfBounds(arenaBounds(g), x, y)

\* mutant: only the cells participants stand on are checked, not their whole trails
OnTrailHeadsOnly(g, x, y) ==
    \E i \in 1..Len(g.players) : g.players[i].position = <<x, y>>

\* mutant: the trails of eliminated participants are skipped
OnTrailOfLiving(g, x, y) ==
    \E i \in 1..Len(g.players) :
        /\ g.players[i].alive
        /\ \E k \in 1..Len(g.players[i].trail) : g.players[i].trail[k] = <<x, y>>

OnTrail(g, x, y) ==
    \E i \in 1..Len(g.players) :
        \E k \in 1..Len(g.players[i].trail) : g.players[i].trail[k] = <<x, y>>

\* mutant: only the arena boundary is checked
checkCollisionArenaOnly(g, x, y) == OutOfArena(g, x, y)

checkCollision(g, x, y) == OutOfArena(g, x, y) \/ OnTrail(g, x, y)

checkNearMiss(g, x, y, playerId) ==
    \E i \in 1..Len(g.players) :
        /\ g.players[i].id # playerId
        /\ g.players[i].alive
        /\ Abs(g.players[i].position[1] - x) + Abs(g.players[i].position[2] - y)
              <= NEAR_MISS_RADIUS

\* a handler's working state c: the match c.g and the events c.ev emitted so far
Emit(c, e) == [c EXCEPT !.ev = Append(@, e)]

broadcast(c, event, data) ==
    Emit(c, [event |-> event, to |-> Recipients(c.g), game |-> c.g.id, data |-> data])

\* the announcement of the prize positions, n participants being alive
lastStand(c, n) ==
    IF n = 3 /\ GAME_MODES[c.g.mode].players > 4
    THEN broadcast(c, "last_stand", [message |-> "TOP 3"])
    ELSE IF n = 2 /\ GAME_MODES[c.g.mode].players <= 4
    THEN broadcast(c, "last_stand", [message |-> "FINAL SHOWDOWN"])
    ELSE c

\* what eliminatePlayer does once participant i is marked eliminated
announceEliminated(c, i, n) ==
    lastStand(broadcast(c, "player_eliminated",
                        [playerId |-> c.g.players[i].id, remainingPlayers |-> n,
                         survivalTime |-> c.g.players[i].survivalTime \div TICK_RATE]), n)

eliminated(c, i) == announceEliminated(c, i, AliveCount(c.g))

eliminatePlayer(c, playerId) ==
    IF IndexOf(c.g.players, playerId) = 0 THEN c
    ELSE eliminated([c EXCEPT !.g.players[IndexOf(c.g.players, playerId)] = eliminate(@)],
                    IndexOf(c.g.players, playerId))

\* p.position + p.direction
CellAhead(p) == <<p.position[1] + p.direction[1], p.position[2] + p.direction[2]>>

nearMiss(c, i, x, y) ==
    IF checkNearMiss(c.g, x, y, c.g.players[i].id)
    THEN Emit(c, [event |-> "near_collision", to |-> {c.g.players[i].id},
                  game |-> c.g.id, data |-> <<>>])
    ELSE c

\* mutant: the cell a participant enters is not added to its trail
moveToUnmarked(c, i, x, y) ==
    [nearMiss(c, i, x, y) EXCEPT !.g.players[i] =
        [setPosition(@, x, y) EXCEPT !.survivalTime = c.g.tickCounter]]

\* participant i enters the free cell (x, y)
moveTo(c, i, x, y) ==
    [nearMiss(c, i, x, y) EXCEPT !.g.players[i] =
        [addTrailSegment(setPosition(@, x, y)) EXCEPT !.survivalTime = c.g.tickCounter]]

\* the while loop of tick for participant i: one full-cell move per unit of subStep
RECURSIVE MoveLoop(_, _)

\* mutant: a participant that collides enters the cell all the same
MoveStepInto(c, i, x, y) ==
    IF checkCollision(c.g, x, y)
    THEN eliminatePlayer(moveTo(c, i, x, y), c.g.players[i].id)
    ELSE MoveLoop(moveTo(c, i, x, y), i)

\* the loop's body once subStep is decremented, the next cell being (x, y)
MoveStep(c, i, x, y) ==
    IF checkCollision(c.g, x, y)
    THEN eliminatePlayer(c, c.g.players[i].id)
    ELSE MoveLoop(moveTo(c, i, x, y), i)

MoveLoop(c, i) ==
    IF FLt(c.g.players[i].subStep, FOne) THEN c
    ELSE MoveStep([c EXCEPT !.g.players[i].subStep = FSub(@, FOne)], i,
                  CellAhead(c.g.players[i])[1], CellAhead(c.g.players[i])[2])

\* the body of players.forEach in tick, from participant i on
RECURSIVE MovePlayers(_, _)
\* mutant: the first participant of the map gathers speed twice in a tick
MovePlayersLeaderFast(c, i) ==
    IF i > Len(c.g.players) THEN c
    ELSE IF ~c.g.players[i].alive THEN MovePlayers(c, i + 1)
    ELSE MovePlayers(MoveLoop([c EXCEPT !.g.players[i].subStep =
                                   IF i = 1 THEN FAdd(FAdd(@, c.g.gameSpeed), c.g.gameSpeed)
                                   ELSE FAdd(@, c.g.gameSpeed)], i),
                     i + 1)

MovePlayers(c, i) ==
    IF i > Len(c.g.players) THEN c
    ELSE IF ~c.g.players[i].alive THEN MovePlayers(c, i + 1)
    ELSE MovePlayers(MoveLoop([c EXCEPT !.g.players[i].subStep = FAdd(@, c.g.gameSpeed)], i),
                     i + 1)

phaseOfPercentage(percentage) ==
    IF FLt(percentage, FInt(30)) THEN "panic"
    ELSE IF FLt(percentage, FInt(50)) THEN "danger"
    ELSE IF FLt(percentage, FInt(70)) THEN "warning"
    ELSE "stable"

\* mutant: the ratio is judged as it is, not as a percentage
phaseOfFraction(arenaSize, gridSize) == phaseOfPercentage(FDivInt(arenaSize, gridSize))

\* the phase of the percentage (arenaSize / gridSize) * 100
phaseOf(arenaSize, gridSize) ==
    phaseOfPercentage(FMul(FDivInt(arenaSize, gridSize), FInt(100)))

setPhase(c, phase) ==
    IF phase # c.g.shrinkPhase
    THEN broadcast([c EXCEPT !.g.shrinkPhase = phase], "arena_phase", [phase |-> phase])
    ELSE c

setArenaSize(c, size) ==
    setPhase([c EXCEPT !.g.arenaSize = size], phaseOf(size, c.g.gridSize))

\* mutant: the shrink rate is added
updateArenaGrows(c) ==
    setArenaSize(c, FAdd(c.g.arenaSize, c.g.shrinkRate))

updateArenaShrink(c) ==
    setArenaSize(c, FMax(FSub(c.g.arenaSize, c.g.shrinkRate), minSize(c.g.gridSize)))

\* ------------------------------------------------------------------------
\* BotAI
\* ------------------------------------------------------------------------

\* the candidate headings, in the order calculateBestDirection lists them
possibleDirections == << <<0, -1>>, <<0, 1>>, <<-1, 0>>, <<1, 0>> >>

\* what isCollision reads of the match: the arena inset and every trail cell
collisionView(g) ==
    [bounds |-> arenaBounds(g),
     cells |-> UNION {{g.players[i].trail[k] : k \in 1..Len(g.players[i].trail)} :
                         i \in 1..Len(g.players)}]

isCollision(v, x, y) == OutOfBounds(v.bounds, x, y) \/ <<x, y>> \in v.cells

countOpenSpace(v, x, y) ==
    Cardinality({d \in (-CHECK_RADIUS..CHECK_RADIUS) \X (-CHECK_RADIUS..CHECK_RADIUS) :
                    ~isCollision(v, x + d[1], y + d[2])})

\* the look-ahead penalty: the first blocked cell i steps past the next cell
\* costs (LOOK_AHEAD - i + 1) * 20
LookAheadPenalty(v, nextX, nextY, d) ==
    LET blocked == {i \in 1..LOOK_AHEAD : isCollision(v, nextX + i * d[1], nextY + i * d[2])}
    IN IF blocked = {} THEN 0
       ELSE LET i == CHOOSE k \in blocked : \A j \in blocked : k <= j
            IN (LOOK_AHEAD - i + 1) * 20

\* a signed double: sign and magnitude
SNum(neg, mag) == [neg |-> neg, mag |-> mag]

\* the double of an integer, of either sign
SInt(n) == SNum(n < 0, FInt(Abs(n)))

\* a + b on signed doubles, as the hardware computes it
SAdd(a, b) ==
    IF a.neg = b.neg THEN SNum(a.neg, FAdd(a.mag, b.mag))
    ELSE IF FLe(b.mag, a.mag) THEN SNum(a.neg, FSub(a.mag, b.mag))
    ELSE SNum(b.neg, FSub(b.mag, a.mag))

\* a < b on signed doubles (-0 equals +0)
SLt(a, b) ==
    IF a.neg # b.neg THEN a.neg /\ (a.mag # FZero \/ b.mag # FZero)
    ELSE IF a.neg THEN FLt(b.mag, a.mag)
    ELSE FLt(a.mag, b.mag)

\* Math.min(nextX - limit, nextY - limit, gridSize - limit - nextX, gridSize - limit - nextY)
distanceToEdge(b, x, y) ==
    FMin(FMin(FSub(FInt(x), b.limit), FSub(FInt(y), b.limit)),
         FMin(FSub(b.far, FInt(x)), FSub(b.far, FInt(y))))

\* score -= (DANGER_THRESHOLD - distanceToEdge) * 30, when closer than the threshold
edgePenalty(score, distance) ==
    IF FLt(distance, FInt(DANGER_THRESHOLD))
    THEN SAdd(score, SNum(TRUE, FMul(FSub(FInt(DANGER_THRESHOLD), distance), FInt(30))))
    ELSE score

\* half of the integer n, of either sign
SHalf(n) == SNum(n < 0, FHalf(FInt(Abs(n))))

\* 100 less the look-ahead penalty la, less half the Manhattan distance of
\* (x, y) to the center. gridSize is even in every mode, so twice that distance
\* is the integer |2x - gridSize| + |2y - gridSize|.
centerScore(la, gridSize, x, y) ==
    SHalf(2 * (100 - la) - ((Abs(2 * x - gridSize) + Abs(2 * y - gridSize)) \div 2))

\* the score of heading d into the free cell (x, y)
scoreCell(v, x, y, d) ==
    SAdd(edgePenalty(centerScore(LookAheadPenalty(v, x, y, d), v.bounds.gridSize, x, y),
                     distanceToEdge(v.bounds, x, y)),
         SInt(2 * countOpenSpace(v, x, y)))

\* scoreDirection: 100, less the look-ahead penalty, less half the distance to
\* the center, less the edge penalty, plus 2 per open cell around the next
\* cell; -1000 when the next cell is blocked
scoreDirection(v, bot, d) ==
    IF isCollision(v, bot.position[1] + d[1], bot.position[2] + d[2])
    THEN SInt(-1000)
    ELSE scoreCell(v, bot.position[1] + d[1], bot.position[2] + d[2], d)

\* the reverse of the current heading is not a candidate
validDirections(bot) ==
    SelectSeq(possibleDirections,
              LAMBDA d : bot.direction[1] + d[1] # 0 \/ bot.direction[2] + d[2] # 0)

\* mutant: the sort is ascending, the first candidate of the lowest score wins
firstBestAscending(sc) ==
    CHOOSE k \in 1..Len(sc) :
        /\ \A j \in 1..Len(sc) : ~SLt(sc[j], sc[k])
        /\ \A j \in 1..(k - 1) : SLt(sc[k], sc[j])

\* index of the first candidate of the highest score (the sort is stable)
firstBest(sc) ==
    CHOOSE k \in 1..Len(sc) :
        /\ \A j \in 1..Len(sc) : ~SLt(sc[k], sc[j])
        /\ \A j \in 1..(k - 1) : SLt(sc[j], sc[k])

\* the candidate the sort puts first, if its score is positive; <<0, 0>> for null
bestOf(vd, sc) ==
    IF Len(vd) > 0 /\ SLt(SInt(0), sc[firstBest(sc)]) THEN vd[firstBest(sc)] ELSE <<0, 0>>

scoredDirections(v, bot, vd) ==
    bestOf(vd, AsSeq([k \in 1..Len(vd) |-> scoreDirection(v, bot, vd[k])]))

calculateBestDirection(v, bot) == scoredDirections(v, bot, validDirections(bot))

\* parseInt(id.split('_').pop()) % BOT_THINK_INTERVAL
botOffset(id) == id[4] % BOT_THINK_INTERVAL

\* if (bestDirection) player.setDirection(...)
turnTo(p, b) == IF b = <<0, 0>> THEN p ELSE setDirection(p, b[1], b[2])

\* the forEach body of updateBots at BotAI tick t
think(v, t, p) ==
    IF ~p.isBot \/ ~p.alive THEN p
    ELSE IF (t + botOffset(p.id)) % BOT_THINK_INTERVAL # 0 THEN p
    ELSE turnTo(p, calculateBestDirection(v, p))

thinkAll(g, v, t) ==
    [g EXCEPT !.botTick = t,
              !.players = AsSeq([i \in 1..Len(g.players) |-> think(v, t, g.players[i])])]

\* BotAI.updateBots: the BotAI's own tick counter advances, and every living bot
\* whose turn it is reconsiders its heading
updateBots(g) == thinkAll(g, collisionView(g), g.botTick + 1)

\* ------------------------------------------------------------------------
\* Game: end of match, prizes, input, removal, tick
\* ------------------------------------------------------------------------

SHARE_SQUAD_1 == Dbl(75, 100)

SHARE_SQUAD_2 == Dbl(25, 100)

SHARE_TOP_1 == Dbl(694, 1000)

SHARE_TOP_2 == Dbl(208, 1000)

SHARE_TOP_3 == Dbl(98, 1000)

\* the distribution tables of calculatePrize
DISTRIBUTION_SQUAD == <<SHARE_SQUAD_1, SHARE_SQUAD_2>>

DISTRIBUTION_TOP == <<SHARE_TOP_1, SHARE_TOP_2, SHARE_TOP_3>>

\* rank < distribution.length ? totalPrize * distribution[rank] : 0
prizeShare(totalPrize, distribution, rank) ==
    IF rank < Len(distribution) THEN FMul(totalPrize, distribution[rank + 1]) ELSE FZero

\* calculatePrize(rank), rank counted from 0
calculatePrize(mode, rank) ==
    IF mode.players <= 2 THEN (IF rank = 0 THEN mode.prize ELSE FZero)
    ELSE IF mode.players <= 4 THEN prizeShare(mode.prize, DISTRIBUTION_SQUAD, rank)
    ELSE prizeShare(mode.prize, DISTRIBUTION_TOP, rank)

\* mutant: eliminated participants are ordered by ascending survival time
compareRankAscending(a, b) ==
    IF a.alive /\ ~b.alive THEN -1
    ELSE IF ~a.alive /\ b.alive THEN 1
    ELSE a.survivalTime - b.survivalTime

\* the comparator of endGame's sort: negative puts a first
compareRank(a, b) ==
    IF a.alive /\ ~b.alive THEN -1
    ELSE IF ~a.alive /\ b.alive THEN 1
    ELSE b.survivalTime - a.survivalTime

\* the place of x in the sorted front: behind the longest run of leading
\* elements that do not compare after it
placeOf(front, x) ==
    CHOOSE k \in 0..Len(front) :
        /\ \A j \in 1..k : compareRank(front[j], x) <= 0
        /\ k < Len(front) => compareRank(front[k + 1], x) > 0

insertAt(front, x, k) == SubSeq(front, 1, k) \o <<x>> \o SubSeq(front, k + 1, Len(front))

insertSorted(front, x) == insertAt(front, x, placeOf(front, x))

\* Array.prototype.sort is stable: an element goes behind everything that does
\* not compare after it
RECURSIVE sortRankings(_)
sortRankings(seq) ==
    IF Len(seq) <= 1 THEN seq
    ELSE insertSorted(sortRankings(SubSeq(seq, 1, Len(seq) - 1)), seq[Len(seq)])

\* the rankings of the game_end event, r being the sorted participants
rankingsOf(mode, r) ==
    AsSeq([k \in 1..Len(r) |->
              [rank |-> k, playerId |-> r[k].id, alive |-> r[k].alive,
               kills |-> r[k].kills,
               survivalTime |-> r[k].survivalTime \div TICK_RATE,
               prize |-> calculatePrize(mode, k - 1)]])

gameEnd(c, t, mode) ==
    broadcast(c, "game_end",
              [gameDuration |-> (t - c.g.startTime) \div 1000,
               prizePool |-> mode.prize,
               rankings |-> rankingsOf(mode, sortRankings(c.g.players))])

\* mutant: the results are sent, but the loop is not stopped and the state is left as it is
endGameStaysActive(c, t) == gameEnd(c, t, GAME_MODES[c.g.mode])

endGame(c, t) ==
    gameEnd([c EXCEPT !.g.timer = "none", !.g.state = "finished"], t, GAME_MODES[c.g.mode])

\* mutant: the heading is set to what the request asks for, whatever the heading is
requestedDirectionFree(p, direction) ==
    [p EXCEPT !.direction = CASE direction = "up" -> <<0, -1>>
                              [] direction = "down" -> <<0, 1>>
                              [] direction = "left" -> <<-1, 0>>
                              [] direction = "right" -> <<1, 0>>
                              [] OTHER -> @]

\* the heading a directional request asks for, if the current heading lets it
requestedDirection(p, direction) ==
    IF direction = "up" /\ p.direction[2] = 0 THEN setDirection(p, 0, -1)
    ELSE IF direction = "down" /\ p.direction[2] = 0 THEN setDirection(p, 0, 1)
    ELSE IF direction = "left" /\ p.direction[1] = 0 THEN setDirection(p, -1, 0)
    ELSE IF direction = "right" /\ p.direction[1] = 0 THEN setDirection(p, 1, 0)
    ELSE p

\* mutant: the input is taken for any participant, eliminated ones and bots too
inputAtAnyone(g, i, direction, t) ==
    [g EXCEPT !.players[i] = [requestedDirection(@, direction) EXCEPT !.lastInputTime = t]]

inputAt(g, i, direction, t) ==
    IF ~g.players[i].alive \/ g.players[i].isBot THEN g
    ELSE [g EXCEPT !.players[i] = [requestedDirection(@, direction) EXCEPT !.lastInputTime = t]]

\* Game.handlePlayerInput: a vertical request is taken only while the heading is
\* horizontal, and a horizontal one only while it is vertical
gameHandlePlayerInput(g, playerId, direction, t) ==
    IF IndexOf(g.players, playerId) = 0 THEN g
    ELSE inputAt(g, IndexOf(g.players, playerId), direction, t)

\* Game.removePlayer: a living participant is eliminated, and stays in the map
gameRemovePlayer(c, playerId) ==
    IF IndexOf(c.g.players, playerId) # 0 /\ c.g.players[IndexOf(c.g.players, playerId)].alive
    THEN eliminatePlayer(c, playerId)
    ELSE c

\* mutant: the top three end every match
winConditionTopThree(players) == 3

winCondition(players) ==
    IF players <= 2 THEN 1
    ELSE IF players <= 4 THEN 1
    ELSE 3

\* mutant: the match ends only when fewer than winCondition are alive
checkWinBelow(c, t) ==
    IF AliveCount(c.g) < winCondition(GAME_MODES[c.g.mode].players) THEN endGame(c, t) ELSE c

\* mutant: the match ends only when nobody is alive
checkWinLastOut(c, t) ==
    IF AliveCount(c.g) = 0 THEN endGame(c, t) ELSE c

\* the end of tick: the match ends when no more than winCondition are alive
checkWin(c, t) ==
    IF AliveCount(c.g) <= winCondition(GAME_MODES[c.g.mode].players) THEN endGame(c, t) ELSE c

\* the throttled game_state broadcast of tick
throttledBroadcast(c, t) ==
    IF t - c.g.lastBroadcastTime >= BROADCAST_INTERVAL
    THEN [broadcast(c, "game_state", [serverTime |-> t]) EXCEPT !.g.lastBroadcastTime = t]
    ELSE c

\* the bots reconsider on every second tick
botStep(c) == IF c.g.tickCounter % 2 = 0 THEN [c EXCEPT !.g = updateBots(@)] ELSE c

\* mutant: every speed check is announced
setSpeedAnnounced(c, speed) ==
    broadcast([c EXCEPT !.g.gameSpeed = speed], "speed_boost", [newSpeed |-> speed])

setSpeed(c, speed) ==
    IF speed # c.g.gameSpeed
    THEN broadcast([c EXCEPT !.g.gameSpeed = speed], "speed_boost", [newSpeed |-> speed])
    ELSE c

\* the progressive speed increase of tick
speedStep(c, t) ==
    IF t - c.g.lastSpeedIncreaseTime >= SPEED_INCREASE_INTERVAL
    THEN setSpeed([c EXCEPT !.g.lastSpeedIncreaseTime = t],
                  FMin(MAX_SPEED, FAdd(c.g.gameSpeed, SPEED_INCREMENT)))
    ELSE c

\* Game.tick at time t
tick(g, t) ==
    IF g.state # "active" THEN [g |-> g, ev |-> <<>>]
    ELSE checkWin(
           throttledBroadcast(
             updateArenaShrink(
               MovePlayers(
                 botStep(speedStep([g |-> [g EXCEPT !.tickCounter = @ + 1], ev |-> <<>>], t)),
                 1)),
             t),
           t)

\* ------------------------------------------------------------------------
\* GameManager. Its operators work on the record m of the coordinator's Maps,
\* the Game objects and the events emitted so far.
\* ------------------------------------------------------------------------

\* mutant: the update goes to every socket, as io.emit would send it
lobbyUpdatesToAll(lobby, modeId) ==
    AsSeq([i \in 1..Len(lobby) |->
              [event |-> "lobby_update", to |-> {SockId(s) : s \in Sockets}, game |-> NoGame,
               data |-> [playersInLobby |-> Len(lobby),
                         requiredPlayers |-> GAME_MODES[modeId].players,
                         modeId |-> modeId]]])

\* the property names that the object literal GAME_MODES inherits from
\* Object.prototype: GAME_MODES[name] is a function or an object for them, not
\* undefined, and has no players, gridSize or prize
InheritedKeys ==
    {"constructor", "toString", "toLocaleString", "valueOf", "hasOwnProperty",
     "isPrototypeOf", "propertyIsEnumerable", "__proto__"}

\* GAME_MODES[modeId] is truthy
modeFound(modeId) == modeId \in ModeIds \cup InheritedKeys

\* the payload of lobby_update: mode.players is undefined for an inherited key, and
\* an undefined field is not sent
lobbyUpdateData(size, modeId) ==
    IF modeId \in ModeIds
    THEN [playersInLobby |-> size, requiredPlayers |-> GAME_MODES[modeId].players,
          modeId |-> modeId]
    ELSE [playersInLobby |-> size, modeId |-> modeId]

lobbyUpdates(lobby, modeId) ==
    AsSeq([i \in 1..Len(lobby) |->
              [event |-> "lobby_update", to |-> {lobby[i].id}, game |-> NoGame,
               data |-> lobbyUpdateData(Len(lobby), modeId)]])

broadcastLobbyUpdate(m, modeId) ==
    [m EXCEPT !.ev = @ \o lobbyUpdates(m.lobbies[modeId], modeId)]

\* the game_start broadcast of Game.start
announceStart(c, prize) ==
    broadcast(c, "game_start",
              [gridSize |-> c.g.gridSize, arenaSize |-> c.g.arenaSize,
               modeId |-> c.g.mode, prizePool |-> prize])

\* Game.start at time t: the countdown timer is armed
gameStart(g, t, mode) ==
    announceStart([g |-> [g EXCEPT !.state = "waiting", !.startTime = t,
                                   !.timer = "countdown", !.due = t + COUNTDOWN_MS],
                   ev |-> <<>>], mode.prize)

\* the forEach of startGame: the participant is mapped to the match and leaves the lobby
RECURSIVE mapToGame(_, _, _, _)
mapToGame(m, modeId, ids, gameId) ==
    IF ids = <<>> THEN m
    ELSE mapToGame([m EXCEPT !.playerToGame = MapSet(@, Head(ids), gameId),
                             !.lobbies[modeId] = SeqDel(@, Head(ids)),
                             !.playerToLobby = MapDel(@, Head(ids))],
                   modeId, Tail(ids), gameId)

\* the match is entered under its id, and its participants are mapped to it
registerGame(m, modeId, ids, gameId, started) ==
    mapToGame([m EXCEPT !.matches = Append(@, started.g),
                        !.games = MapSet(@, gameId, Len(m.matches) + 1),
                        !.ev = @ \o started.ev],
              modeId, ids, gameId)

startWith(m, mode, t, players) ==
    IF Len(players) < 1 THEN m
    ELSE registerGame(m, mode.id, AsSeq([i \in 1..Len(players) |-> players[i].id]),
                      GameId(mode.id, t),
                      gameStart(NewGame(GameId(mode.id, t), mode, players), t, mode))

\* the first mode.players entries of the lobby
lobbySlice(lobby, n) == SubSeq(lobby, 1, Min2(Len(lobby), n))

startGame(m, modeId, t) ==
    startWith(m, GAME_MODES[modeId], t,
              lobbySlice(m.lobbies[modeId], GAME_MODES[modeId].players))

\* mutant: the match starts only when the lobby holds more than the mode needs
startIfOverFull(m, modeId, t) ==
    IF Len(m.lobbies[modeId]) > GAME_MODES[modeId].players
    THEN startGame(m, modeId, t)
    ELSE m

\* the end of addPlayerToLobby: a full lobby starts its match; lobby.size >=
\* undefined is false for the lobby of an inherited key
startIfFull(m, modeId, t) ==
    IF modeId \in ModeIds /\ Len(m.lobbies[modeId]) >= GAME_MODES[modeId].players
    THEN startGame(m, modeId, t)
    ELSE m

\* the lobby of the mode, a new one where the coordinator has none
lobbyOf(m, modeId) == IF modeId \in DOMAIN m.lobbies THEN m.lobbies[modeId] ELSE <<>>

enterLobby(m, socketId, modeId, t) ==
    startIfFull(broadcastLobbyUpdate(
                    [m EXCEPT !.lobbies = MapSet(@, modeId,
                                  SeqSet(lobbyOf(m, modeId), NewPlayer(socketId, FALSE, t))),
                              !.playerToLobby = MapSet(@, socketId, modeId)],
                    modeId),
                modeId, t)

addPlayerToLobby(m, socketId, requested, t) ==
    enterLobby(m, socketId, IF modeFound(requested) THEN requested ELSE DEFAULT_MODE, t)

RECURSIVE addBots(_, _, _, _, _)
addBots(lobby, modeId, t, i, botsNeeded) ==
    IF i >= botsNeeded THEN lobby
    ELSE addBots(SeqSet(lobby, NewPlayer(BotId(modeId, t, i), TRUE, t)),
                 modeId, t, i + 1, botsNeeded)

\* mutant: the fill leaves one place of the match empty
fillWithBotsShort(m, modeId, t) ==
    [m EXCEPT !.lobbies[modeId] =
        addBots(@, modeId, t, 0, GAME_MODES[modeId].players - Len(@) - 1)]

fillWithBots(m, modeId, t) ==
    [m EXCEPT !.lobbies[modeId] =
        addBots(@, modeId, t, 0, GAME_MODES[modeId].players - Len(@))]

\* GameManager.handlePlayerInput
mgrHandlePlayerInput(m, socketId, direction, t) ==
    IF socketId \notin DOMAIN m.playerToGame THEN m
    ELSE IF m.playerToGame[socketId] \notin DOMAIN m.games THEN m
    ELSE [m EXCEPT !.matches[m.games[m.playerToGame[socketId]]] =
                       gameHandlePlayerInput(@, socketId, direction, t)]

\* removePlayer, first half: the socket leaves the lobby it is mapped to
leaveLobby(m, socketId) ==
    IF socketId \notin DOMAIN m.playerToLobby THEN m
    ELSE [broadcastLobbyUpdate(
              [m EXCEPT !.lobbies[m.playerToLobby[socketId]] = SeqDel(@, socketId)],
              m.playerToLobby[socketId])
            EXCEPT !.playerToLobby = MapDel(@, socketId)]

\* the match has handled the removal (c): a finished match is forgotten
removedFrom(m, gameId, c) ==
    [m EXCEPT !.matches[m.games[gameId]] = c.g,
              !.ev = @ \o c.ev,
              !.games = IF c.g.state = "finished" THEN MapDel(@, gameId) ELSE @]

leaveMatch(m, socketId, gameId) ==
    IF gameId \notin DOMAIN m.games THEN m
    ELSE removedFrom(m, gameId,
                     gameRemovePlayer([g |-> m.matches[m.games[gameId]], ev |-> <<>>],
                                      socketId))

\* removePlayer, second half: the socket leaves the match it is mapped to
leaveGame(m, socketId) ==
    IF socketId \notin DOMAIN m.playerToGame THEN m
    ELSE [leaveMatch(m, socketId, m.playerToGame[socketId])
            EXCEPT !.playerToGame = MapDel(@, socketId)]

\* GameManager.removePlayer
mgrRemovePlayer(m, socketId) == leaveGame(leaveLobby(m, socketId), socketId)

\* mutant: the demo flag is not consulted
lobbyTimedOutAnyway(lobby, players, t, demo) ==
    /\ Len(lobby) >= 1 /\ Len(lobby) < players
    /\ t - lobby[1].joinedAt > LOBBY_TIMEOUT

\* lobby.size >= 1 && lobby.size < mode.players, and the oldest entry has
\* waited longer than LOBBY_TIMEOUT outside demo mode
lobbyTimedOut(lobby, players, t, demo) ==
    /\ Len(lobby) >= 1 /\ Len(lobby) < players
    /\ ~demo /\ t - lobby[1].joinedAt > LOBBY_TIMEOUT

\* one lobby of the periodic check: a partly filled lobby that has timed out is
\* filled with bots and started
checkLobby(m, modeId, t, demo) ==
    IF lobbyTimedOut(m.lobbies[modeId], GAME_MODES[modeId].players, t, demo)
    THEN startGame(fillWithBots(m, modeId, t), modeId, t)
    ELSE m

\* lobbies.forEach of the periodic check, over the lobbies of the four modes: the
\* lobby of an inherited key is never started, lobby.size < undefined is false
RECURSIVE checkLobbies(_, _, _, _)
checkLobbies(m, k, t, demo) ==
    IF k > Len(ModeOrder) THEN m
    ELSE checkLobbies(checkLobby(m, ModeOrder[k], t, demo), k + 1, t, demo)

\* ------------------------------------------------------------------------
\* AntiCheat and input validation
\* ------------------------------------------------------------------------

NewPlayerData == [inputHistory |-> <<>>, warningCount |-> 0, flagged |-> FALSE]

\* validatePlayerInput: the Joi schema accepts the four direction words only
\* mutant: the gateway lets every input through
validatePlayerInputAny(direction) == TRUE

validatePlayerInput(direction) == direction \in Directions

\* mutant: any input that does not come before the last one is in time
validateInputTimingLoose(data, t) ==
    \/ Len(data.inputHistory) = 0
    \/ t - data.inputHistory[Len(data.inputHistory)].timestamp >= 0

validateInputTiming(data, t) ==
    \/ Len(data.inputHistory) = 0
    \/ t - data.inputHistory[Len(data.inputHistory)].timestamp >= MIN_INPUT_DELAY

validateDirection(direction) == direction \in {"up", "down", "left", "right"}

RECURSIVE SumSeq(_)
SumSeq(q) == IF q = <<>> THEN 0 ELSE Head(q) + SumSeq(Tail(q))

\* the time intervals between consecutive inputs
intervals(h) == AsSeq([i \in 1..(Len(h) - 1) |-> h[i + 1].timestamp - h[i].timestamp])

\* intervals.reduce((a, b) => a + b, 0) / intervals.length
meanOf(iv) == XDivInt(XInt(SumSeq(iv)), Len(iv))

\* Math.pow(x, 2)
squared(x) == XMul(x, x)

\* the reduce of the variance over the first n intervals:
\* sum + Math.pow(val - mean, 2), from 0 on
RECURSIVE sumSquares(_, _, _)
sumSquares(iv, mean, n) ==
    IF n = 0 THEN XZero
    ELSE XAdd(sumSquares(iv, mean, n - 1), squared(XAbsDiff(XInt(iv[n]), mean)))

variance(iv) == XDivInt(sumSquares(iv, meanOf(iv), Len(iv)), Len(iv))

\* Math.sqrt(x) < 10 holds for exactly the doubles x below 100 - 2^-46: the
\* square root of 100 - 2^-46 is rounded to 10
STDDEV_LIMIT ==
    [t |-> FSubExact(FInt((PATTERN_STDDEV * PATTERN_STDDEV) \div 4), FBit(13)), s |-> -59]

\* stdDev < 10
steadyIntervals(iv) == XLt(variance(iv), STDDEV_LIMIT)

detectBotPattern(data) ==
    IF Len(data.inputHistory) < PATTERN_MIN_INPUTS THEN FALSE
    ELSE steadyIntervals(intervals(data.inputHistory))

\* mutant: the warning is counted, and the participant is never flagged
flagPlayerNever(data) == [data EXCEPT !.warningCount = @ + 1]

flagPlayer(data) ==
    [data EXCEPT !.warningCount = @ + 1,
                 !.flagged = @ \/ (data.warningCount + 1 >= MAX_WARNINGS)]

\* only the last HISTORY_LIMIT inputs are kept
lastInputs(h) == IF Len(h) > HISTORY_LIMIT THEN Tail(h) ELSE h

\* mutant: the input of a flagged participant is judged like any other
validateInputNoBan(data, direction, t) ==
    IF ~validateInputTiming(data, t) THEN [ok |-> FALSE, data |-> flagPlayer(data)]
    ELSE IF ~validateDirection(direction) THEN [ok |-> FALSE, data |-> flagPlayer(data)]
    ELSE IF detectBotPattern(data) THEN [ok |-> FALSE, data |-> flagPlayer(data)]
    ELSE [ok |-> TRUE,
          data |-> [data EXCEPT !.inputHistory =
                       lastInputs(Append(@, [timestamp |-> t, direction |-> direction]))]]

\* mutant: the bot-pattern check rejects only a participant without a warning
validateInputForgiving(data, direction, t) ==
    IF data.flagged THEN [ok |-> FALSE, data |-> data]
    ELSE IF ~validateInputTiming(data, t) THEN [ok |-> FALSE, data |-> flagPlayer(data)]
    ELSE IF ~validateDirection(direction) THEN [ok |-> FALSE, data |-> flagPlayer(data)]
    ELSE IF detectBotPattern(data) /\ data.warningCount = 0
         THEN [ok |-> FALSE, data |-> flagPlayer(data)]
    ELSE [ok |-> TRUE,
          data |-> [data EXCEPT !.inputHistory =
                       lastInputs(Append(@, [timestamp |-> t, direction |-> direction]))]]

\* AntiCheat.validateInput: the verdict and the player's data after the call
validateInput(data, direction, t) ==
    IF data.flagged THEN [ok |-> FALSE, data |-> data]
    ELSE IF ~validateInputTiming(data, t) THEN [ok |-> FALSE, data |-> flagPlayer(data)]
    ELSE IF ~validateDirection(direction) THEN [ok |-> FALSE, data |-> flagPlayer(data)]
    ELSE IF detectBotPattern(data) THEN [ok |-> FALSE, data |-> flagPlayer(data)]
    ELSE [ok |-> TRUE,
          data |-> [data EXCEPT !.inputHistory =
                       lastInputs(Append(@, [timestamp |-> t, direction |-> direction]))]]

\* ------------------------------------------------------------------------
\* Time and the environment
\* ------------------------------------------------------------------------

\* period of the lobby check
SWEEP_INTERVAL == 3000

\* 1000 / tickRate
TICK_INTERVAL == 1000 \div TICK_RATE

\* the timers that are armed and that the environment still lets fire
LoopArmed(g) == g.timer = "loop" /\ g.tickCounter < env.maxTick

SweepArmed == sent.sweeps < env.maxSweeps

DueTimes ==
    {matches[i].due : i \in {j \in 1..Len(matches) :
                                matches[j].timer = "countdown" \/ LoopArmed(matches[j])}}
    \cup (IF SweepArmed THEN {sweepDue} ELSE {})

\* a timer never fires early: nothing happens at t while a timer is due before t
NothingDueBefore(t) == \A d \in DueTimes : t <= d

\* the environment first sends the events of env.script, at the times it names
ScriptLeft == sent.events < Len(env.script)

\* the times at which the next socket event may arrive: as the script says, or
\* else an input env.gaps after the last event, and any other event right away
EventTimes(kind) ==
    IF ScriptLeft THEN {env.script[sent.events + 1].at}
    ELSE IF kind = "input" THEN {now + d : d \in env.gaps}
    ELSE {now}

\* some match has run for at least n ticks
SomeMatchAt(n) == \E i \in 1..Len(matches) : matches[i].tickCounter >= n

\* what the environment lets socket s do once the script is over
FreeEvent(kind, s) ==
    CASE kind = "connect" -> s \in env.joiners
      [] kind = "join" -> s \in env.joiners
      [] kind = "input" -> s \in env.drivers /\ SomeMatchAt(env.inputsFrom)
      [] kind = "disconnect" -> s \in env.leavers /\ SomeMatchAt(env.leaveFrom)
      [] OTHER -> FALSE

\* a socket event of this kind may arrive at time t
EnvAllows(kind, s, arg, t) ==
    /\ t >= now
    /\ NothingDueBefore(t)
    /\ IF ScriptLeft
       THEN env.script[sent.events + 1] =
                [at |-> t, kind |-> kind, socket |-> s, arg |-> arg]
       ELSE FreeEvent(kind, s)

\* a timer due at t may fire: it is the earliest, and no scripted event comes first
TimerAllows(t) ==
    /\ NothingDueBefore(t)
    /\ ScriptLeft => env.script[sent.events + 1].at > t

Manager == [lobbies |-> lobbies, playerToLobby |-> playerToLobby,
            playerToGame |-> playerToGame, games |-> games,
            matches |-> matches, ev |-> <<>>]

SetManager(m) ==
    /\ lobbies' = m.lobbies
    /\ playerToLobby' = m.playerToLobby
    /\ playerToGame' = m.playerToGame
    /\ games' = m.games
    /\ matches' = m.matches

ToSocket(s, event, data) ==
    [event |-> event, to |-> {SockId(s)}, game |-> NoGame, data |-> data]

\* ------------------------------------------------------------------------
\* Handlers
\* ------------------------------------------------------------------------

\* io.on('connection')
Connect(s) ==
    /\ conn[s] = "new"
    /\ \E t \in EventTimes("connect") :
        /\ EnvAllows("connect", s, "", t)
        /\ now' = t
    /\ conn' = [conn EXCEPT ![s] = "up"]
    /\ online' = online + 1
    /\ out' = <<>>
    /\ sent' = [sent EXCEPT !.events = @ + 1]
    /\ UNCHANGED <<demoMode, lobbies, playerToLobby, playerToGame, games, matches,
                   acData, sweepDue, env>>

\* the manager has taken the socket into a lobby (m): lobby_joined is sent
Joined(s, requested, m) ==
    /\ Len(m.matches) <= env.maxMatches
    /\ SetManager(m)
    /\ out' = Append(m.ev, ToSocket(s, "lobby_joined",
                  [playerId |-> SockId(s), modeId |-> requested]))

JoinMode(s, requested, t) ==
    Joined(s, requested, addPlayerToLobby(Manager, SockId(s), requested, t))

\* socket.on('join_lobby'): wallet tells whether the request names a wallet
\* address, modeId is the requested mode ("" when the request names none)
JoinLobby(s, wallet, modeId) ==
    /\ conn[s] = "up"
    /\ sent.joins < env.maxJoins
    /\ \E t \in EventTimes("join") :
        /\ EnvAllows("join", s, modeId, t)
        /\ now' = t
        /\ IF ~wallet
           THEN /\ out' = <<ToSocket(s, "error", [message |-> "Wallet address required"])>>
                /\ UNCHANGED <<lobbies, playerToLobby, playerToGame, games, matches>>
           ELSE JoinMode(s, IF modeId = "" THEN DEFAULT_MODE ELSE modeId, t)
    /\ sent' = [sent EXCEPT !.events = @ + 1, !.joins = @ + 1]
    /\ UNCHANGED <<demoMode, conn, online, acData, sweepDue, env>>

\* mutant: the data of a flagged participant are kept
clearPlayerDataUnlessFlagged(data, id) ==
    IF id \in DOMAIN data /\ data[id].flagged THEN data ELSE MapDel(data, id)

\* AntiCheat.clearPlayerData
clearPlayerData(data, id) == MapDel(data, id)

playerDataOf(id) == IF id \in DOMAIN acData THEN acData[id] ELSE NewPlayerData

\* the anti-cheat has given its verdict (v) on the input
Validated(s, direction, t, v) ==
    /\ acData' = MapSet(acData, SockId(s), v.data)
    /\ IF ~v.ok
       THEN /\ out' = <<ToSocket(s, "warning",
                           [message |-> "Suspicious activity detected"])>>
            /\ UNCHANGED matches
       ELSE /\ out' = <<>>
            /\ matches' = mgrHandlePlayerInput(Manager, SockId(s), direction, t).matches

\* socket.on('player_input')
PlayerInput(s, direction) ==
    /\ conn[s] = "up"
    /\ sent.inputs < env.maxInputs
    /\ \E t \in EventTimes("input") :
        /\ EnvAllows("input", s, direction, t)
        /\ now' = t
        /\ IF ~validatePlayerInput(direction)
           THEN /\ out' = <<>>
                /\ UNCHANGED <<acData, matches>>
           ELSE Validated(s, direction, t,
                          validateInput(playerDataOf(SockId(s)), direction, t))
    /\ sent' = [sent EXCEPT !.events = @ + 1, !.inputs = @ + 1]
    /\ UNCHANGED <<demoMode, conn, online, lobbies, playerToLobby, playerToGame,
                   games, sweepDue, env>>

\* the manager has handled the call (m): its state and its messages
Managed(m) ==
    /\ SetManager(m)
    /\ out' = m.ev

\* socket.on('disconnect')
Disconnect(s) ==
    /\ conn[s] = "up"
    /\ \E t \in EventTimes("disconnect") :
        /\ EnvAllows("disconnect", s, "", t)
        /\ now' = t
    /\ conn' = [conn EXCEPT ![s] = "gone"]
    /\ online' = IF online - 1 > 0 THEN online - 1 ELSE 0
    /\ Managed(mgrRemovePlayer(Manager, SockId(s)))
    /\ acData' = clearPlayerData(acData, SockId(s))
    /\ sent' = [sent EXCEPT !.events = @ + 1]
    /\ UNCHANGED <<demoMode, sweepDue, env>>

\* the lobby check has run (m)
Swept(m) ==
    /\ Len(m.matches) <= env.maxMatches
    /\ Managed(m)

\* the setInterval callback of startLobbyCheck
LobbySweep ==
    /\ SweepArmed
    /\ TimerAllows(sweepDue)
    /\ now' = sweepDue
    /\ sweepDue' = sweepDue + SWEEP_INTERVAL
    /\ Swept(checkLobbies(Manager, 1, sweepDue, demoMode))
    /\ sent' = [sent EXCEPT !.sweeps = @ + 1]
    /\ UNCHANGED <<demoMode, conn, online, acData, env>>

\* the setTimeout callback of Game.start: the countdown is over
Activate(gi) ==
    /\ matches[gi].timer = "countdown"
    /\ TimerAllows(matches[gi].due)
    /\ now' = matches[gi].due
    /\ matches' = [matches EXCEPT ![gi] =
          [@ EXCEPT !.state = "active",
                    !.lastSpeedIncreaseTime = matches[gi].due,
                    !.gameSpeed = MIN_SPEED,
                    !.timer = "loop",
                    !.due = matches[gi].due + TICK_INTERVAL]]
    /\ out' = <<>>
    /\ UNCHANGED <<demoMode, conn, online, lobbies, playerToLobby, playerToGame,
                   games, acData, sweepDue, sent, env>>

\* the tick has run (c): the loop timer stays armed unless the match has ended
Ticked(gi, c) ==
    /\ matches' = [matches EXCEPT ![gi] =
          [c.g EXCEPT !.due = IF c.g.timer = "loop" THEN @ + TICK_INTERVAL ELSE @]]
    /\ out' = c.ev

\* the setInterval callback of the game loop: Game.tick
Tick(gi) ==
    /\ LoopArmed(matches[gi])
    /\ TimerAllows(matches[gi].due)
    /\ now' = matches[gi].due
    /\ Ticked(gi, tick(matches[gi], matches[gi].due))
    /\ sent' = [sent EXCEPT !.ticks = @ + 1]
    /\ UNCHANGED <<demoMode, conn, online, lobbies, playerToLobby, playerToGame,
                   games, acData, sweepDue, env>>

Next ==
    \/ \E s \in env.sockets : Connect(s)
    \/ \E s \in env.sockets, w \in env.wallets, md \in env.modes : JoinLobby(s, w, md)
    \/ \E s \in env.sockets, d \in env.inputs : PlayerInput(s, d)
    \/ \E s \in env.sockets : Disconnect(s)
    \/ LobbySweep
    \/ \E gi \in 1..Len(matches) : Activate(gi)
    \/ \E gi \in 1..Len(matches) : Tick(gi)

\* the state after construction of the server: no socket, four empty lobbies
InitServer ==
    /\ now = 0
    /\ conn = [s \in Sockets |-> "new"]
    /\ online = 0
    /\ lobbies = [m \in ModeIds |-> <<>>]
    /\ playerToLobby = EmptyMap
    /\ playerToGame = EmptyMap
    /\ games = EmptyMap
    /\ matches = <<>>
    /\ acData = EmptyMap
    /\ sweepDue = SWEEP_INTERVAL
    /\ out = <<>>
    /\ sent = [events |-> 0, inputs |-> 0, joins |-> 0, sweeps |-> 0, ticks |-> 0]

Ev(t, kind, s, arg) == [at |-> t, kind |-> kind, socket |-> s, arg |-> arg]

\* the sockets of q connect and ask for mode md, one after the other, at time 0
RECURSIVE JoinAll(_, _)
JoinAll(q, md) ==
    IF q = <<>> THEN <<>>
    ELSE <<Ev(0, "connect", Head(q), ""), Ev(0, "join", Head(q), md)>> \o JoinAll(Tail(q), md)

\* four sockets fill the squad lobby; late in the match s4 steers and s3 may leave
Init ==
    /\ InitServer
    /\ demoMode = FALSE
    /\ env = [sockets |-> {"s1", "s2", "s3", "s4"}, script |-> JoinAll(<<"s1", "s2", "s3", "s4">>, "squad"),
              joiners |-> {}, drivers |-> {"s4"}, leavers |-> {"s3"},
              wallets |-> {TRUE}, modes |-> {"squad"},
              inputs |-> Directions, gaps |-> {50},
              inputsFrom |-> InputsFrom, leaveFrom |-> LeaveFrom,
              maxTick |-> MaxTick, maxInputs |-> MaxInputs, maxJoins |-> MaxJoins,
              maxMatches |-> MaxMatches, maxSweeps |-> MaxSweeps]

Spec == Init /\ [][Next]_vars

\* joins, inputs, ticks, matches and lobby checks of the lobby scenario
LobbyJoins == 3

LobbyInputs == 1

LobbyTicks == 2

LobbyMatches == 2

LobbySweeps == 1

\* two sockets come and go freely and ask for a duel, any number of times
InitLobby ==
    /\ InitServer
    /\ demoMode \in BOOLEAN
    /\ env = [sockets |-> {"s1", "s2"}, script |-> <<>>,
              joiners |-> {"s1", "s2"}, drivers |-> {"s1"}, leavers |-> {"s1", "s2"},
              wallets |-> {TRUE, FALSE}, modes |-> {"duel"},
              inputs |-> {"left"}, gaps |-> {50},
              inputsFrom |-> 0, leaveFrom |-> 0,
              maxTick |-> LobbyTicks, maxInputs |-> LobbyInputs, maxJoins |-> LobbyJoins,
              maxMatches |-> LobbyMatches, maxSweeps |-> LobbySweeps]

SpecLobby == InitLobby /\ [][Next]_vars

\* ticks, inputs and lobby checks of the ranked scenario, and the ticks from
\* which its sockets steer and leave
RankedTicks == 75

RankedInputs == 1

RankedSweeps == 1

RankedInputsFrom == 66

RankedLeaveFrom == 64

\* eight sockets fill the ranked lobby; late in the match s1 steers and s8 may leave
InitRanked ==
    /\ InitServer
    /\ demoMode = FALSE
    /\ env = [sockets |-> Sockets,
              script |-> JoinAll(<<"s1", "s2", "s3", "s4", "s5", "s6", "s7", "s8">>, "ranked"),
              joiners |-> {}, drivers |-> {"s1"}, leavers |-> {"s8"},
              wallets |-> {TRUE}, modes |-> {"ranked"},
              inputs |-> Directions, gaps |-> {50},
              inputsFrom |-> RankedInputsFrom, leaveFrom |-> RankedLeaveFrom,
              maxTick |-> RankedTicks, maxInputs |-> RankedInputs, maxJoins |-> 8,
              maxMatches |-> 1, maxSweeps |-> RankedSweeps]

SpecRanked == InitRanked /\ [][Next]_vars

\* ticks, inputs and lobby checks of the arena scenario, the tick after which its
\* participant turns, and the tick from which the idle socket may leave
ArenaTicks == 401

ArenaInputs == 2

ArenaSweeps == 7

ArenaTurnTick == 172

ArenaLeaveFrom == 399

\* the first lobby check at which an entry that joined at time 0 has timed out,
\* and the end of the countdown of the match this check starts
ArenaStart == (LOBBY_TIMEOUT \div SWEEP_INTERVAL + 1) * SWEEP_INTERVAL

ArenaActive == ArenaStart + COUNTDOWN_MS

\* one socket waits in the arena lobby until bots fill it; it steers right before
\* the first tick and down after tick ArenaTurnTick; a second socket stays idle
InitArena ==
    /\ InitServer
    /\ demoMode = FALSE
    /\ env = [sockets |-> {"s1", "s2"},
              script |-> JoinAll(<<"s1">>, "arena") \o
                         <<Ev(0, "connect", "s2", ""),
                           Ev(ArenaActive + 10, "input", "s1", "right"),
                           Ev(ArenaActive + ArenaTurnTick * TICK_INTERVAL + 10,
                              "input", "s1", "down")>>,
              joiners |-> {}, drivers |-> {}, leavers |-> {"s2"},
              wallets |-> {TRUE}, modes |-> {"arena"},
              inputs |-> Directions, gaps |-> {50},
              inputsFrom |-> 0, leaveFrom |-> ArenaLeaveFrom,
              maxTick |-> ArenaTicks, maxInputs |-> ArenaInputs, maxJoins |-> 1,
              maxMatches |-> 1, maxSweeps |-> ArenaSweeps]

SpecArena == InitArena /\ [][Next]_vars

\* ticks, inputs and lobby checks of the scenario of the pocket, and the tick from
\* which the idle socket may leave
PocketTicks == 348

PocketInputs == 4

PocketSweeps == 7

PocketLeaveFrom == 346

\* the turns of s1 in the scenario of the pocket: the tick after which each is sent
PocketTurns == << <<54, "right">>, <<88, "up">>, <<152, "right">>, <<167, "down">> >>

PocketInput(k) ==
    Ev(ArenaActive + PocketTurns[k][1] * TICK_INTERVAL + 10, "input", "s1", PocketTurns[k][2])

\* one socket waits in the squad lobby until three bots fill it, and steers four
\* times; a second socket stays idle
InitPocket ==
    /\ InitServer
    /\ demoMode = FALSE
    /\ env = [sockets |-> {"s1", "s2"},
              script |-> JoinAll(<<"s1">>, "squad") \o
                         <<Ev(0, "connect", "s2", "")>> \o
                         AsSeq([k \in 1..Len(PocketTurns) |-> PocketInput(k)]),
              joiners |-> {}, drivers |-> {}, leavers |-> {"s2"},
              wallets |-> {TRUE}, modes |-> {"squad"},
              inputs |-> Directions, gaps |-> {50},
              inputsFrom |-> 0, leaveFrom |-> PocketLeaveFrom,
              maxTick |-> PocketTicks, maxInputs |-> PocketInputs, maxJoins |-> 1,
              maxMatches |-> 1, maxSweeps |-> PocketSweeps]

SpecPocket == InitPocket /\ [][Next]_vars

\* ticks and lobby checks of the scenario of the endgame, and the tick from which
\* s1 may leave
EndgameTicks == 450

EndgameSweeps == 7

EndgameLeaveFrom == 280

\* the scenario of the pocket played to its end: s1 steers four times and may
\* leave shortly before its trail ends; the bots play on
InitEndgame ==
    /\ InitServer
    /\ demoMode = FALSE
    /\ env = [sockets |-> {"s1"},
              script |-> JoinAll(<<"s1">>, "squad") \o
                         AsSeq([k \in 1..Len(PocketTurns) |-> PocketInput(k)]),
              joiners |-> {}, drivers |-> {}, leavers |-> {"s1"},
              wallets |-> {TRUE}, modes |-> {"squad"},
              inputs |-> Directions, gaps |-> {50},
              inputsFrom |-> 0, leaveFrom |-> EndgameLeaveFrom,
              maxTick |-> EndgameTicks, maxInputs |-> PocketInputs, maxJoins |-> 1,
              maxMatches |-> 1, maxSweeps |-> EndgameSweeps]

\* the next event of the script arrives at its time
Scripted ==
    /\ ScriptLeft
    /\ NothingDueBefore(env.script[sent.events + 1].at)
    /\ now' = env.script[sent.events + 1].at
    /\ sent' = [sent EXCEPT !.events = @ + 1,
                            !.joins = IF env.script[sent.events + 1].kind = "join"
                                      THEN @ + 1 ELSE @,
                            !.inputs = IF env.script[sent.events + 1].kind = "input"
                                       THEN @ + 1 ELSE @]

\* the endgame with the timers of the event loop: a timer that is due fires, and
\* so does s1 send what the script says; whether s1 leaves is up to it
SpecEndgame ==
    /\ InitEndgame
    /\ [][Next]_vars
    /\ WF_vars(LobbySweep)
    /\ WF_vars(\E gi \in 1..Len(matches) : Activate(gi))
    /\ WF_<<now, sent>>(\E gi \in 1..Len(matches) :
                           /\ LoopArmed(matches[gi])
                           /\ TimerAllows(matches[gi].due)
                           /\ now' = matches[gi].due
                           /\ sent' = [sent EXCEPT !.ticks = @ + 1])
    /\ WF_<<now, sent>>(Scripted)

\* the squad scenario again, with s1 as the socket that may leave late in the match
InitSquad ==
    /\ InitServer
    /\ demoMode = FALSE
    /\ env = [sockets |-> {"s1", "s2", "s3", "s4"}, script |-> JoinAll(<<"s1", "s2", "s3", "s4">>, "squad"),
              joiners |-> {}, drivers |-> {"s4"}, leavers |-> {"s1"},
              wallets |-> {TRUE}, modes |-> {"squad"},
              inputs |-> Directions, gaps |-> {50},
              inputsFrom |-> InputsFrom, leaveFrom |-> LeaveFrom,
              maxTick |-> MaxTick, maxInputs |-> MaxInputs, maxJoins |-> MaxJoins,
              maxMatches |-> MaxMatches, maxSweeps |-> MaxSweeps]

SpecSquad == InitSquad /\ [][Next]_vars

\* ticks, inputs and lobby checks of the duel scenario, and the ticks from which
\* its sockets steer and leave
DuelTicks == 48

DuelInputs == 2

DuelSweeps == 1

DuelInputsFrom == 36

DuelLeaveFrom == 42

\* two sockets fill the duel lobby and run at each other; late in the match s2
\* steers and s1 may leave
InitDuel ==
    /\ InitServer
    /\ demoMode = FALSE
    /\ env = [sockets |-> {"s1", "s2"}, script |-> JoinAll(<<"s1", "s2">>, "duel"),
              joiners |-> {}, drivers |-> {"s2"}, leavers |-> {"s1"},
              wallets |-> {TRUE}, modes |-> {"duel"},
              inputs |-> Directions, gaps |-> {50},
              inputsFrom |-> DuelInputsFrom, leaveFrom |-> DuelLeaveFrom,
              maxTick |-> DuelTicks, maxInputs |-> DuelInputs, maxJoins |-> 2,
              maxMatches |-> 1, maxSweeps |-> DuelSweeps]

SpecDuel == InitDuel /\ [][Next]_vars

\* the duel with the timers of the event loop: a timer that is due fires (the
\* lobby check, the countdown of a match, and the loop of a match, whose firing
\* is the step that brings the clock to its due time and is no socket event);
\* what the sockets send, and whether they leave, is up to them
SpecDuelFair ==
    /\ InitDuel
    /\ [][Next]_vars
    /\ WF_vars(LobbySweep)
    /\ WF_vars(\E gi \in 1..Len(matches) : Activate(gi))
    /\ WF_<<now, sent>>(\E gi \in 1..Len(matches) :
                           /\ LoopArmed(matches[gi])
                           /\ TimerAllows(matches[gi].due)
                           /\ now' = matches[gi].due
                           /\ sent' = [sent EXCEPT !.ticks = @ + 1])

\* joins, inputs, ticks, matches and lobby checks of the scenario of two pools
PoolJoins == 4

PoolInputs == 1

PoolTicks == 1

PoolMatches == 2

PoolSweeps == 1

\* two sockets come and go freely and ask for a duel or for a squad match, any
\* number of times
InitPools ==
    /\ InitServer
    /\ demoMode = FALSE
    /\ env = [sockets |-> {"s1", "s2"}, script |-> <<>>,
              joiners |-> {"s1", "s2"}, drivers |-> {"s1"}, leavers |-> {"s1", "s2"},
              wallets |-> {TRUE}, modes |-> {"duel", "squad"},
              inputs |-> {"left"}, gaps |-> {50},
              inputsFrom |-> 0, leaveFrom |-> 0,
              maxTick |-> PoolTicks, maxInputs |-> PoolInputs, maxJoins |-> PoolJoins,
              maxMatches |-> PoolMatches, maxSweeps |-> PoolSweeps]

SpecPools == InitPools /\ [][Next]_vars

\* joins, inputs, ticks, matches and lobby checks of the scenario of the long wait
WaitJoins == 3

WaitInputs == 1

WaitTicks == 2

WaitMatches == 1

WaitSweeps == 7

\* s1 asks for a squad match at 0 s and s2 at 1 s; the squad pool stays short of
\* four while the lobby check comes round, with and without demo mode; s1 may ask
\* once more at any time, and s2 may leave
InitWait ==
    /\ InitServer
    /\ demoMode \in BOOLEAN
    /\ env = [sockets |-> {"s1", "s2"},
              script |-> <<Ev(0, "connect", "s1", ""), Ev(0, "join", "s1", "squad"),
                           Ev(1000, "connect", "s2", ""), Ev(1000, "join", "s2", "squad")>>,
              joiners |-> {"s1"}, drivers |-> {"s1"}, leavers |-> {"s2"},
              wallets |-> {TRUE}, modes |-> {"squad"},
              inputs |-> {"left"}, gaps |-> {50},
              inputsFrom |-> 0, leaveFrom |-> 0,
              maxTick |-> WaitTicks, maxInputs |-> WaitInputs, maxJoins |-> WaitJoins,
              maxMatches |-> WaitMatches, maxSweeps |-> WaitSweeps]

SpecWait == InitWait /\ [][Next]_vars

\* ticks, inputs and lobby checks of the scenario of the steering; the first tick
\* after which s2 sends inputs or leaves
SteerTicks == 8

SteerInputs == 5

SteerSweeps == 1

SteerFrom == 4

\* two sockets play a duel; once the match has moved, s2 sends inputs, well-formed
\* and malformed, 10 or 50 ms after the event before, and may leave
InitSteer ==
    /\ InitServer
    /\ demoMode = FALSE
    /\ env = [sockets |-> {"s1", "s2"}, script |-> JoinAll(<<"s1", "s2">>, "duel"),
              joiners |-> {}, drivers |-> {"s2"}, leavers |-> {"s2"},
              wallets |-> {TRUE}, modes |-> {"duel"},
              inputs |-> {"left", "down", "jump"}, gaps |-> {10, 50},
              inputsFrom |-> SteerFrom, leaveFrom |-> SteerFrom,
              maxTick |-> SteerTicks, maxInputs |-> SteerInputs, maxJoins |-> 2,
              maxMatches |-> 1, maxSweeps |-> SteerSweeps]

SpecSteer == InitSteer /\ [][Next]_vars

\* inputs of the cadence, all inputs, ticks and lobby checks of the scenario of
\* the uniform cadence
CadenceInputs == 25

CadenceAllInputs == 27

CadenceTicks == 14

CadenceSweeps == 1

\* n inputs "left" of socket s, the first one at time t and one every gap ms
RECURSIVE Cadence(_, _, _, _)
Cadence(s, t, gap, n) ==
    IF n = 0 THEN <<>>
    ELSE <<Ev(t, "input", s, "left")>> \o Cadence(s, t + gap, gap, n - 1)

\* two sockets play a duel; s2 sends its inputs every 20 ms from 3600 ms on; then
\* either socket may send well-formed inputs 50 ms after the event before, and s2
\* may leave
InitCadence ==
    /\ InitServer
    /\ demoMode = FALSE
    /\ env = [sockets |-> {"s1", "s2"},
              script |-> JoinAll(<<"s1", "s2">>, "duel") \o Cadence("s2", 3600, 20, CadenceInputs),
              joiners |-> {}, drivers |-> {"s1", "s2"}, leavers |-> {"s2"},
              wallets |-> {TRUE}, modes |-> {"duel"},
              inputs |-> Directions, gaps |-> {50},
              inputsFrom |-> 0, leaveFrom |-> 0,
              maxTick |-> CadenceTicks, maxInputs |-> CadenceAllInputs, maxJoins |-> 2,
              maxMatches |-> 1, maxSweeps |-> CadenceSweeps]

SpecCadence == InitCadence /\ [][Next]_vars

\* ticks, inputs and lobby checks of the scenario of the spirals, and the tick from
\* which a socket may leave
SpiralTicks == 930

SpiralInputs == 54

SpiralSweeps == 1

SpiralLeaveFrom == 920

\* the turns of s1: the tick after which it turns, and the direction it asks for.
\* From (18, 5) it runs an inward spiral through the rows 1..17 of the duel grid.
SpiralTurns ==
    << <<0, "left">>, <<57, "up">>, <<71, "right">>, <<172, "down">>, <<215, "left">>,
       <<300, "up">>, <<325, "right">>, <<398, "down">>, <<418, "left">>, <<482, "up">>,
       <<500, "right">>, <<556, "down">>, <<571, "left">>, <<623, "up">>, <<635, "right">>,
       <<683, "down">>, <<693, "left">>, <<737, "up">>, <<745, "right">>, <<786, "down">>,
       <<792, "left">>, <<830, "up">>, <<834, "right">>, <<870, "down">>, <<873, "left">>,
       <<907, "up">>, <<909, "right">> >>

\* the direction seen from the other side of the grid
Reflected(direction) ==
    CASE direction = "left" -> "right"
      [] direction = "right" -> "left"
      [] direction = "up" -> "down"
      [] direction = "down" -> "up"

\* the k-th input of the spirals: s1 turns 10 ms after the tick, s2 turns the
\* other way 20 ms after it
SpiralInput(k) ==
    IF k % 2 = 1
    THEN Ev(COUNTDOWN_MS + SpiralTurns[(k + 1) \div 2][1] * TICK_INTERVAL + 10, "input", "s1",
            SpiralTurns[(k + 1) \div 2][2])
    ELSE Ev(COUNTDOWN_MS + SpiralTurns[k \div 2][1] * TICK_INTERVAL + 20, "input", "s2",
            Reflected(SpiralTurns[k \div 2][2]))

\* two sockets play a duel and run mirrored spirals, each in its half of the grid,
\* for more than 900 ticks; then s2 may leave
InitSpiral ==
    /\ InitServer
    /\ demoMode = FALSE
    /\ env = [sockets |-> {"s1", "s2"},
              script |-> JoinAll(<<"s1", "s2">>, "duel") \o
                         AsSeq([k \in 1..(2 * Len(SpiralTurns)) |-> SpiralInput(k)]),
              joiners |-> {}, drivers |-> {}, leavers |-> {"s2"},
              wallets |-> {TRUE}, modes |-> {"duel"},
              inputs |-> Directions, gaps |-> {50},
              inputsFrom |-> 0, leaveFrom |-> SpiralLeaveFrom,
              maxTick |-> SpiralTicks, maxInputs |-> SpiralInputs, maxJoins |-> 2,
              maxMatches |-> 1, maxSweeps |-> SpiralSweeps]

SpecSpiral == InitSpiral /\ [][Next]_vars

\* inputs, ticks and lobby checks of the scenario of the rhythm
RhythmInputs == 13

RhythmTicks == 16

RhythmSweeps == 1

\* the intervals between the inputs of the rhythm, in ms: their mean is 561 / 9,
\* their standard deviation is exactly 10 (9 * 35869 - 561 * 561 = 100 * 81); the
\* last one leads to one more input
RhythmGaps == <<75, 74, 76, 57, 54, 51, 56, 51, 67, 60>>

\* an input "up" of socket s at time t, and one more after each of the gaps
RECURSIVE Beat(_, _, _)
Beat(s, t, gaps) ==
    IF gaps = <<>> THEN <<Ev(t, "input", s, "up")>>
    ELSE <<Ev(t, "input", s, "up")>> \o Beat(s, t + Head(gaps), Tail(gaps))

\* two sockets play a duel; s2, which heads up, sends "up" in the rhythm from
\* 3600 ms on; then either socket may send well-formed inputs 50 ms after the
\* event before, and s2 may leave
InitRhythm ==
    /\ InitServer
    /\ demoMode = FALSE
    /\ env = [sockets |-> {"s1", "s2"},
              script |-> JoinAll(<<"s1", "s2">>, "duel") \o Beat("s2", 3600, RhythmGaps),
              joiners |-> {}, drivers |-> {"s1", "s2"}, leavers |-> {"s2"},
              wallets |-> {TRUE}, modes |-> {"duel"},
              inputs |-> Directions, gaps |-> {50},
              inputsFrom |-> 0, leaveFrom |-> 0,
              maxTick |-> RhythmTicks, maxInputs |-> RhythmInputs, maxJoins |-> 2,
              maxMatches |-> 1, maxSweeps |-> RhythmSweeps]

SpecRhythm == InitRhythm /\ [][Next]_vars

\* inputs, ticks and lobby checks of the scenario of the gateway
GatewayInputs == 7

GatewayTicks == 5

GatewaySweeps == 1

\* two sockets play a duel; s2 sends a well-formed input, a malformed one 10 ms
\* later, a well-formed one that comes too early, and an empty one in time; then
\* it sends more inputs, well-formed or not, and may leave
InitGateway ==
    /\ InitServer
    /\ demoMode = FALSE
    /\ env = [sockets |-> {"s1", "s2"},
              script |-> JoinAll(<<"s1", "s2">>, "duel")
                           \o <<Ev(3600, "input", "s2", "left"), Ev(3610, "input", "s2", "jump"),
                                Ev(3620, "input", "s2", "left"), Ev(3700, "input", "s2", "")>>,
              joiners |-> {}, drivers |-> {"s2"}, leavers |-> {"s2"},
              wallets |-> {TRUE}, modes |-> {"duel"},
              inputs |-> {"left", "jump", ""}, gaps |-> {10, 50},
              inputsFrom |-> 0, leaveFrom |-> 0,
              maxTick |-> GatewayTicks, maxInputs |-> GatewayInputs, maxJoins |-> 2,
              maxMatches |-> 1, maxSweeps |-> GatewaySweeps]

SpecGateway == InitGateway /\ [][Next]_vars

\* joins, inputs, ticks, matches and lobby checks of the scenario of the mode names
NamedJoins == 3

NamedInputs == 1

NamedTicks == 1

NamedMatches == 1

NamedSweeps == 1

\* two sockets ask for a duel, for no mode, for a mode that does not exist, or
\* for the mode "constructor", any number of times
InitNamed ==
    /\ InitServer
    /\ demoMode = FALSE
    /\ env = [sockets |-> {"s1", "s2"}, script |-> <<>>,
              joiners |-> {"s1", "s2"}, drivers |-> {"s1"}, leavers |-> {"s1", "s2"},
              wallets |-> {TRUE}, modes |-> {"duel", "", "nomode", "constructor"},
              inputs |-> {"left"}, gaps |-> {50},
              inputsFrom |-> 0, leaveFrom |-> 0,
              maxTick |-> NamedTicks, maxInputs |-> NamedInputs, maxJoins |-> NamedJoins,
              maxMatches |-> NamedMatches, maxSweeps |-> NamedSweeps]

SpecNamed == InitNamed /\ [][Next]_vars

\* ------------------------------------------------------------------------
\* Properties
\* ------------------------------------------------------------------------

MatchIndices == 1..Len(matches)

PlayerIndices(g) == 1..Len(g.players)

\* the heading of the k-th full-cell move of p: the step from trail[k] to trail[k+1]
MoveHeading(p, k) == <<p.trail[k + 1][1] - p.trail[k][1], p.trail[k + 1][2] - p.trail[k][2]>>

Reverse(d) == <<-d[1], -d[2]>>

IsPrefix(a, b) == Len(a) <= Len(b) /\ SubSeq(b, 1, Len(a)) = a

TrailCells(p) == {p.trail[k] : k \in 1..Len(p.trail)}

\* the events of the last handler that carry this name
OutEvents(name) == {k \in 1..Len(out) : out[k].event = name}

\* C1: in an active match every living participant stands inside the arena inset
\* of the current arena size: limit <= x < gridSize - limit and
\* limit <= y < gridSize - limit, with limit = (gridSize - arenaSize) / 2.
C1_InsideArena ==
    \A gi \in MatchIndices : \A i \in PlayerIndices(matches[gi]) :
        LET p == matches[gi].players[i]
        IN (matches[gi].state = "active" /\ p.alive)
              => ~OutOfArena(matches[gi], p.position[1], p.position[2])

C3_HeadingTowardCenter ==
    [][\A gi \in (Len(matches) + 1)..Len(matches') :
          \A i \in PlayerIndices(matches'[gi]) :
              LET p == matches'[gi].players[i]
              IN p.direction = TowardCenter(matches'[gi].gridSize,
                                            p.position[1], p.position[2])]_vars

\* C4: no participant id is at the same time in the lobby of some mode and in the
\* participant map of a match that has not finished.
C4_LobbyOrMatch ==
    \A md \in ModeIds : \A gi \in MatchIndices :
        matches[gi].state # "finished"
           => Ids(lobbies[md]) \cap Ids(matches[gi].players) = {}

\* C5: no two living participants of a match occupy the same cell.
C5_NoSharedCell ==
    \A gi \in MatchIndices : \A i, j \in PlayerIndices(matches[gi]) :
        LET p == matches[gi].players[i]
            q == matches[gi].players[j]
        IN (i # j /\ p.alive /\ q.alive) => p.position # q.position

\* two participants attempted the same cell in one tick: the first one took it,
\* the second one was eliminated in that tick
C5_Witness ==
    \E gi \in MatchIndices : \E i, j \in PlayerIndices(matches[gi]) :
        LET g == matches[gi]
            p == g.players[i]
            q == g.players[j]
        IN /\ i # j /\ p.alive /\ ~q.alive
           /\ p.survivalTime = g.tickCounter
           /\ CellAhead(q) = p.position
           /\ \E k \in OutEvents("player_eliminated") : out[k].data.playerId = q.id
           /\ \E k \in OutEvents("game_state") : TRUE

\* C6: a participant's trail only grows by appending (the old trail is a prefix
\* of the new one), and after elimination trail and position never change.
C6_TrailAppendOnly ==
    [][\A gi \in MatchIndices : \A i \in PlayerIndices(matches[gi]) :
          LET p == matches[gi].players[i]
              q == matches'[gi].players[i]
          IN /\ IsPrefix(p.trail, q.trail)
             /\ ~p.alive => (q.trail = p.trail /\ q.position = p.position)]_vars

\* a participant was eliminated and the others have moved on since
C6_Witness ==
    \E gi \in MatchIndices : \E i, j \in PlayerIndices(matches[gi]) :
        LET p == matches[gi].players[i]
            q == matches[gi].players[j]
        IN /\ ~p.alive /\ q.alive
           /\ Len(p.trail) >= 2
           /\ q.survivalTime > p.survivalTime
           /\ Len(q.trail) > Len(p.trail)

\* C7: an eliminated participant stays in the match's participant map, is never
\* alive again, and no participant moves onto a cell of its trail.
C7_EliminatedStays ==
    [][\A gi \in MatchIndices : \A i \in PlayerIndices(matches[gi]) :
          LET g == matches[gi]
              h == matches'[gi]
              p == g.players[i]
          IN ~p.alive =>
                /\ i <= Len(h.players)
                /\ h.players[i].id = p.id
                /\ ~h.players[i].alive
                /\ \A j \in PlayerIndices(h) :
                      (j <= Len(g.players) /\ h.players[j].position # g.players[j].position)
                         => h.players[j].position \notin TrailCells(p)]_vars

\* a participant ran into the trail of one that had left the match earlier, and
\* was eliminated by it
C7_Witness ==
    \E gi \in MatchIndices : \E i, j \in PlayerIndices(matches[gi]) :
        LET p == matches[gi].players[i]
            q == matches[gi].players[j]
        IN /\ i # j /\ ~p.alive /\ ~q.alive
           /\ p.survivalTime < q.survivalTime
           /\ CellAhead(q) \in TrailCells(p)
           /\ \E k \in OutEvents("player_eliminated") : out[k].data.playerId = q.id
           /\ \E k \in OutEvents("game_state") : TRUE
           /\ \E s \in Sockets : p.id = SockId(s) /\ conn[s] = "gone"

\* C8: the arena edge never increases from one step to the next, and it is
\* always at least a quarter of the grid size and at most the grid size.
C8_ArenaShrinks ==
    /\ [][\A gi \in MatchIndices : FLe(matches'[gi].arenaSize, matches[gi].arenaSize)]_vars
    /\ [](\A gi \in MatchIndices :
             /\ FLe(minSize(matches[gi].gridSize), matches[gi].arenaSize)
             /\ FLe(matches[gi].arenaSize, FInt(matches[gi].gridSize)))

\* the arena of a running match has shrunk below the grid size
C8_Witness ==
    \E gi \in MatchIndices :
        /\ matches[gi].tickCounter >= 2
        /\ FLt(matches[gi].arenaSize, FInt(matches[gi].gridSize))

\* the match a game_end event belongs to
MatchOf(gameId) == CHOOSE gi \in MatchIndices : matches[gi].id = gameId

PlayerOf(g, id) == g.players[IndexOf(g.players, id)]

\* C9: the ranking of a finished match lists every participant exactly once with
\* the ranks 1..N, every living participant before every eliminated one, and of
\* two eliminated participants the one with the higher survival tick never later.
C9_RankingOrder ==
    \A k \in OutEvents("game_end") :
        LET g == matches[MatchOf(out[k].game)]
            r == out[k].data.rankings
        IN /\ Len(r) = Len(g.players)
           /\ {r[n].playerId : n \in 1..Len(r)} = Ids(g.players)
           /\ \A n \in 1..Len(r) : r[n].rank = n
           /\ \A a, b \in 1..Len(r) :
                 LET pa == PlayerOf(g, r[a].playerId)
                     pb == PlayerOf(g, r[b].playerId)
                 IN a < b =>
                      /\ ~(~pa.alive /\ pb.alive)
                      /\ (~pa.alive /\ ~pb.alive) => pa.survivalTime >= pb.survivalTime

\* a match ended with a survivor and eliminated participants of different survival ticks
C9_Witness ==
    \E k \in OutEvents("game_end") :
        LET g == matches[MatchOf(out[k].game)]
        IN /\ \E i \in PlayerIndices(g) : g.players[i].alive
           /\ \E i, j \in PlayerIndices(g) :
                 /\ ~g.players[i].alive /\ ~g.players[j].alive
                 /\ g.players[i].survivalTime # g.players[j].survivalTime
                 /\ i < j /\ g.players[i].survivalTime < g.players[j].survivalTime

\* the exact sum of the prize shares of a ranking
RECURSIVE PrizeSum(_)
PrizeSum(r) == IF r = <<>> THEN FZero ELSE FAddExact(Head(r).prize, PrizeSum(Tail(r)))

\* the number of paid ranks of a mode
PaidRanks(mode) == IF mode.players <= 2 THEN 1 ELSE IF mode.players <= 4 THEN 2 ELSE 3

\* C10: the prize shares of a finished match sum to at most the prize pool of the
\* mode, to exactly the pool when every paid rank exists, and a rank beyond the
\* paid ranks receives exactly 0.
C10_PrizeShares ==
    \A k \in OutEvents("game_end") :
        LET mode == GAME_MODES[matches[MatchOf(out[k].game)].mode]
            r == out[k].data.rankings
        IN /\ FLe(PrizeSum(r), mode.prize)
           /\ Len(r) >= PaidRanks(mode) => PrizeSum(r) = mode.prize
           /\ \A n \in 1..Len(r) : n > PaidRanks(mode) => r[n].prize = FZero

\* the participants of match gi that this step eliminates
EliminatedNow(gi) ==
    {matches[gi].players[i].id : i \in {j \in PlayerIndices(matches[gi]) :
        matches[gi].players[j].alive /\ ~matches'[gi].players[j].alive}}

\* the participants of match gi that the handler before this step eliminated
EliminatedBefore(gi) ==
    {out[k].data.playerId : k \in {j \in OutEvents("player_eliminated") :
                                       out[j].game = matches[gi].id}}

\* the participants whose elimination was the last one when this step ends
\* match gi, as far as this step and the one before tell
LastEliminated(gi) ==
    IF EliminatedNow(gi) # {} THEN EliminatedNow(gi) ELSE EliminatedBefore(gi)

\* the game_end events of the handler of this step
EndEvents == {k \in 1..Len(out') : out'[k].event = "game_end"}

\* C11: when a 4-player match finishes with exactly one living participant, rank 1
\* is the survivor, rank 2 is the participant eliminated last (by collision or by
\* disconnect), they receive 1.35 and 0.45 of the pool of 1.8, and ranks 3 and 4
\* receive 0.
C11_SquadRanking ==
    [][\A k \in EndEvents :
          LET gi == MatchOf(out'[k].game)
              h == matches'[gi]
              r == out'[k].data.rankings
          IN (GAME_MODES[h.mode].players = 4 /\ Len(h.players) = 4 /\ AliveCount(h) = 1)
                => /\ PlayerOf(h, r[1].playerId).alive
                   /\ LastEliminated(gi) # {} => r[2].playerId \in LastEliminated(gi)
                   /\ r[1].prize = Dbl(135, 100)
                   /\ r[2].prize = Dbl(45, 100)
                   /\ r[3].prize = FZero
                   /\ r[4].prize = FZero]_vars

\* the game_end events of this step for match gi that rank the survivor first with
\* the whole pool and the eliminated participant second with nothing
DuelEndEvents(gi) ==
    {k \in EndEvents :
        /\ out'[k].game = matches[gi].id
        /\ Len(out'[k].data.rankings) = 2
        /\ PlayerOf(matches'[gi], out'[k].data.rankings[1].playerId).alive
        /\ out'[k].data.rankings[1].prize = GAME_MODES[matches[gi].mode].prize
        /\ out'[k].data.rankings[2].playerId \in EliminatedNow(gi)
        /\ out'[k].data.rankings[2].prize = FZero}

\* C12: when a tick of a 2-player match eliminates exactly one participant by
\* collision and the other one lives on, the match is finished in that tick, the
\* survivor is rank 1 with the whole prize pool and the eliminated participant is
\* rank 2 with prize 0.
C12_DuelEnds ==
    [][\A gi \in MatchIndices :
          (/\ GAME_MODES[matches[gi].mode].players = 2
           /\ matches'[gi].tickCounter = matches[gi].tickCounter + 1
           /\ Cardinality(EliminatedNow(gi)) = 1
           /\ AliveCount(matches'[gi]) = 1)
             => /\ matches'[gi].state = "finished"
                /\ DuelEndEvents(gi) # {}]_vars

\* a tick of a duel eliminated one participant, the other one lives, and the match
\* has ended
C12_Witness ==
    \E gi \in MatchIndices :
        /\ matches[gi].mode = "duel"
        /\ matches[gi].state = "finished"
        /\ AliveCount(matches[gi]) = 1
        /\ \E k \in OutEvents("player_eliminated") : out[k].game = matches[gi].id
        /\ \E k \in OutEvents("game_end") : out[k].game = matches[gi].id
        /\ \A s \in Sockets : conn[s] # "gone"

\* the win threshold of a mode: 1 for modes of up to 4 players, 3 for larger modes
WinThreshold(g) == IF GAME_MODES[g.mode].players <= 4 THEN 1 ELSE 3

\* C13: a tick of an active match leaves the match finished if and only if no
\* more living participants than the win threshold of the mode remain, and no
\* step finishes a match in which more than the threshold are alive.
C13_EndsAtThreshold ==
    [][\A gi \in MatchIndices :
          /\ (matches[gi].state = "active"
                 /\ matches'[gi].tickCounter = matches[gi].tickCounter + 1)
               => (matches'[gi].state = "finished"
                      <=> AliveCount(matches'[gi]) <= WinThreshold(matches'[gi]))
          /\ (matches[gi].state # "finished" /\ matches'[gi].state = "finished")
               => AliveCount(matches'[gi]) <= WinThreshold(matches'[gi])]_vars

\* a tick has brought the living down to the threshold and has ended the match
C13_Witness ==
    \E gi \in MatchIndices :
        /\ matches[gi].state = "finished"
        /\ matches[gi].tickCounter > 0
        /\ AliveCount(matches[gi]) <= WinThreshold(matches[gi])
        /\ \E k \in OutEvents("game_end") : out[k].game = matches[gi].id
        /\ \E k \in OutEvents("game_state") : out[k].game = matches[gi].id

\* the game_end events of this step that belong to match gi
EndEventsOf(gi) == {k \in EndEvents : out'[k].game = matches[gi].id}

\* position and trail of every participant, arena size, speed and shrink phase
Frozen(g, h) ==
    /\ Len(h.players) = Len(g.players)
    /\ \A i \in PlayerIndices(g) :
          /\ h.players[i].position = g.players[i].position
          /\ h.players[i].trail = g.players[i].trail
    /\ h.arenaSize = g.arenaSize
    /\ h.gameSpeed = g.gameSpeed
    /\ h.shrinkPhase = g.shrinkPhase

\* C14: the match-end payload is emitted at most once per match (only by the step
\* that finishes the match, and once in it), a finished match stays finished, and
\* no later step changes a participant's position or trail, the arena size, the
\* speed or the shrink phase.
C14_Terminal ==
    [][\A gi \in MatchIndices :
          /\ Cardinality(EndEventsOf(gi)) <= 1
          /\ EndEventsOf(gi) # {}
               => (matches[gi].state # "finished" /\ matches'[gi].state = "finished")
          /\ matches[gi].state = "finished"
               => (matches'[gi].state = "finished" /\ Frozen(matches[gi], matches'[gi]))]_vars

\* a match has finished, and a socket of the match has been heard of since
C14_Witness ==
    \E gi \in MatchIndices :
        /\ matches[gi].state = "finished"
        /\ OutEvents("game_end") = {}
        /\ \/ \E i \in PlayerIndices(matches[gi]) :
                 matches[gi].players[i].lastInputTime > matches[gi].due
           \/ \E s \in Sockets : conn[s] = "gone" /\ SockId(s) \notin DOMAIN playerToGame

\* the lobby_joined events of the handler of this step
JoinedEvents == {k \in 1..Len(out') : out'[k].event = "lobby_joined"}

\* the ids of a pool or of the participants of a match, in their order
IdSeq(seq) == AsSeq([i \in 1..Len(seq) |-> seq[i].id])

\* the ids of the pool of mode md once id has joined it: a new id comes last, an
\* id that is in the pool keeps its place
JoinedPool(md, id) ==
    IF id \in Ids(lobbies[md]) THEN IdSeq(lobbies[md])
    ELSE Append(IdSeq(lobbies[md]), id)

\* the join has started a match of mode md with the first n ids of pool, and has
\* left the rest of pool in the lobby
StartedFrom(md, pool, n) ==
    /\ Len(matches') = Len(matches) + 1
    /\ matches'[Len(matches')].mode = md
    /\ IdSeq(matches'[Len(matches')].players) = SubSeq(pool, 1, n)
    /\ IdSeq(lobbies'[md]) = SubSeq(pool, n + 1, Len(pool))
    /\ \A i \in 1..n : pool[i] \notin DOMAIN playerToLobby'
    /\ \E k \in 1..Len(out') :
          out'[k].event = "game_start" /\ out'[k].game = matches'[Len(matches')].id

\* C15: a join that brings the pool of its mode to the required number of players
\* creates a match within the same join, with exactly the required number of pool
\* members in insertion order, and these members have left the pool when the
\* join returns.
C15_FullPoolStarts ==
    [][\A k \in JoinedEvents :
          Len(JoinedPool(out'[k].data.modeId, out'[k].data.playerId))
                >= GAME_MODES[out'[k].data.modeId].players
             => StartedFrom(out'[k].data.modeId,
                            JoinedPool(out'[k].data.modeId, out'[k].data.playerId),
                            GAME_MODES[out'[k].data.modeId].players)]_vars

\* a join has just filled the duel pool: the match of the two members has started
\* and the pool is empty
C15_Witness ==
    /\ \E k \in OutEvents("lobby_joined") : out[k].data.modeId = "duel"
    /\ \E k \in OutEvents("game_start") : out[k].game = matches[Len(matches)].id
    /\ Len(matches) >= 1
    /\ Len(matches[Len(matches)].players) = GAME_MODES["duel"].players
    /\ lobbies["duel"] = <<>>

\* no bot is among the players of seq
NoBots(seq) == \A i \in 1..Len(seq) : ~seq[i].isBot

\* this step is a run of the lobby check
SweepStep == sent'.sweeps = sent.sweeps + 1

\* C16: in demo mode no match is created from a pool of fewer humans than the mode
\* requires, however long its members have waited, and no bot is made: no pool
\* and no match holds a bot, every match has the full number of participants of
\* its mode, and the lobby check starts nothing.
C16_DemoNeverFills ==
    [][demoMode =>
          /\ \A md \in ModeIds : NoBots(lobbies'[md])
          /\ \A gi \in 1..Len(matches') :
                /\ NoBots(matches'[gi].players)
                /\ Len(matches'[gi].players) = GAME_MODES[matches'[gi].mode].players
          /\ SweepStep => (matches' = matches /\ lobbies' = lobbies)]_vars

\* in demo mode the lobby check has just found a pool, short of its mode, whose
\* first member has waited for more than the timeout, and no match exists
C16_Witness ==
    /\ demoMode
    /\ now = sweepDue - SWEEP_INTERVAL
    /\ out = <<>>
    /\ matches = <<>>
    /\ \E md \in ModeIds :
          /\ Len(lobbies[md]) >= 1
          /\ Len(lobbies[md]) < GAME_MODES[md].players
          /\ now - lobbies[md][1].joinedAt > LOBBY_TIMEOUT

\* the members of the pool of mode md who have waited for more than the timeout
\* when the lobby check of this step runs
WaitedLong(md) ==
    {i \in 1..Len(lobbies[md]) : now' - lobbies[md][i].joinedAt > LOBBY_TIMEOUT}

\* the lobby check has started a match of mode md with every member of the pool
\* and with just enough bots to fill it, and has emptied the pool
FilledFrom(md) ==
    /\ lobbies'[md] = <<>>
    /\ \E gi \in 1..Len(matches') :
          /\ gi > Len(matches)
          /\ matches'[gi].mode = md
          /\ Len(matches'[gi].players) = GAME_MODES[md].players
          /\ SubSeq(IdSeq(matches'[gi].players), 1, Len(lobbies[md])) = IdSeq(lobbies[md])
          /\ \A i \in 1..Len(matches'[gi].players) :
                matches'[gi].players[i].isBot <=> i > Len(lobbies[md])

\* C17: outside demo mode, a lobby check that finds a pool which is neither empty
\* nor full and whose oldest member has waited for more than 15 s starts a match
\* in that same check, with all the members of the pool and exactly enough bots
\* to reach the required number, and leaves the pool empty.
C17_TimeoutFills ==
    [][(SweepStep /\ ~demoMode) =>
          \A md \in ModeIds :
             (/\ Len(lobbies[md]) >= 1
              /\ Len(lobbies[md]) < GAME_MODES[md].players
              /\ WaitedLong(md) # {})
                => FilledFrom(md)]_vars

\* this step is the disconnect handler of socket s
DisconnectOf(s) == conn[s] = "up" /\ conn'[s] = "gone"

\* C18: when the disconnect of a socket has been handled, the socket is in the
\* pool of no mode, whatever it joined before.
C18_GoneFromPools ==
    [][\A s \in Sockets :
          DisconnectOf(s) => \A md \in ModeIds : SockId(s) \notin Ids(lobbies'[md])]_vars

\* the matches in which id is a living participant
AliveIn(id) ==
    {gi \in MatchIndices :
        /\ IndexOf(matches[gi].players, id) # 0
        /\ matches[gi].players[IndexOf(matches[gi].players, id)].alive}

\* the player_eliminated events of this step that name id in the match of that id
EliminationsOf(id, gameId) ==
    {k \in 1..Len(out') :
        /\ out'[k].event = "player_eliminated"
        /\ out'[k].game = gameId
        /\ out'[k].data.playerId = id}

\* this step has eliminated participant i of match gi and has left its place, its
\* position and its trail as they were
EliminatedInPlace(gi, i) ==
    /\ Len(matches'[gi].players) = Len(matches[gi].players)
    /\ matches'[gi].players[i].id = matches[gi].players[i].id
    /\ ~matches'[gi].players[i].alive
    /\ matches'[gi].players[i].position = matches[gi].players[i].position
    /\ matches'[gi].players[i].trail = matches[gi].players[i].trail

\* C19: the disconnect of a socket that is a living participant of a match acts
\* as a collision elimination: the participant is marked eliminated, stays among
\* the participants with its position and trail unchanged, and one
\* player_eliminated event for it is emitted.
C19_DisconnectEliminates ==
    [][\A s \in Sockets :
          DisconnectOf(s) =>
             \A gi \in AliveIn(SockId(s)) :
                /\ EliminatedInPlace(gi, IndexOf(matches[gi].players, SockId(s)))
                /\ Cardinality(EliminationsOf(SockId(s), matches[gi].id)) = 1]_vars

\* the lobby_update events of the handler of this step
LobbyUpdateEvents == {k \in 1..Len(out') : out'[k].event = "lobby_update"}

\* the ids whose join of mode md this step has handled
JoinersOf(md) ==
    {out'[k].data.playerId : k \in {j \in JoinedEvents : out'[j].data.modeId = md}}

\* the pool of mode md at the moment the handler of this step broadcasts: a join
\* broadcasts once the joiner is in the pool and before a match is started, a
\* disconnect once the socket has left the pool
PoolAtBroadcast(md) ==
    IF JoinedEvents # {} THEN Ids(lobbies[md]) \cup JoinersOf(md)
    ELSE Ids(lobbies'[md])

Finished(gi) == Len(matches) >= gi /\ matches[gi].state = "finished"

\* match gi is no longer in the games Map of the coordinator
Forgotten(gi) ==
    Len(matches) >= gi
      /\ (matches[gi].id \notin DOMAIN games \/ games[matches[gi].id] # gi)

\* C21: every match that has finished is eventually removed from the games Map of
\* the coordinator, also when none of its participants disconnects after the end.
C21_FinishedForgotten == \A gi \in 1..MaxMatches : Finished(gi) ~> Forgotten(gi)

\* this step is the player_input handler
InputStep == sent'.inputs = sent.inputs + 1

\* the input history the filter holds for id before and after this step
HistoryOf(id) == IF id \in DOMAIN acData THEN acData[id].inputHistory ELSE <<>>

HistoryAfter(id) == IF id \in DOMAIN acData' THEN acData'[id].inputHistory ELSE <<>>

\* this step has let an input of id through the filter: it is the last entry of
\* the history, with the time of this step
Accepted(id) ==
    /\ InputStep
    /\ HistoryAfter(id) # HistoryOf(id)
    /\ HistoryAfter(id)[Len(HistoryAfter(id))].timestamp = now'

AcceptedDirection(id) == HistoryAfter(id)[Len(HistoryAfter(id))].direction

\* the unit vector of a direction token
HeadingOf(direction) ==
    CASE direction = "up" -> <<0, -1>>
      [] direction = "down" -> <<0, 1>>
      [] direction = "left" -> <<-1, 0>>
      [] direction = "right" -> <<1, 0>>

Dot(a, b) == a[1] * b[1] + a[2] * b[2]

\* the heading h has become k under an input that asks for the heading d: k is h,
\* or k is d and d is perpendicular to h; never the reverse of h
TurnedBy(h, k, d) ==
    /\ k # <<-h[1], -h[2]>>
    /\ k = h \/ (k = d /\ Dot(h, d) = 0)
    /\ Dot(h, d) # 0 => k = h

\* C22: an input that Game.handlePlayerInput takes changes the heading only to the
\* unit vector perpendicular to the current heading that the input asks for: the
\* new heading is never the reverse of the heading held before the input, and an
\* input along the current axis leaves the heading unchanged.
C22_NoReversal ==
    [][\A s \in Sockets :
          Accepted(SockId(s)) =>
             \A gi \in MatchIndices :
                \A i \in PlayerIndices(matches[gi]) :
                   matches[gi].players[i].id = SockId(s) =>
                      TurnedBy(matches[gi].players[i].direction,
                               matches'[gi].players[i].direction,
                               HeadingOf(AcceptedDirection(SockId(s))))]_vars

\* s2, which heads up the grid at its spawn, has just turned left under an input
C22_Witness ==
    \E gi \in MatchIndices :
        \E i \in PlayerIndices(matches[gi]) :
            /\ matches[gi].players[i].id = SockId("s2")
            /\ matches[gi].mode = "duel"
            /\ matches[gi].players[i].lastInputTime = now
            /\ matches[gi].players[i].direction = <<-1, 0>>
            /\ sent.inputs = 1

\* participant q is participant p but for its heading and its last-input time
SteeredOnly(p, q) ==
    [q EXCEPT !.direction = p.direction, !.lastInputTime = p.lastInputTime] = p

\* match h is match g, but for the heading and the last-input time of the
\* participant id, if that participant lives and is no bot
MatchSteered(g, h, id) ==
    /\ [h EXCEPT !.players = g.players] = g
    /\ Len(h.players) = Len(g.players)
    /\ \A i \in 1..Len(g.players) :
          \/ h.players[i] = g.players[i]
          \/ /\ g.players[i].id = id
             /\ g.players[i].alive
             /\ ~g.players[i].isBot
             /\ SteeredOnly(g.players[i], h.players[i])

\* C23: an input for a participant that is eliminated, is a bot, or is not in the
\* match leaves every match as it is; an input of a living human participant
\* changes nothing but the heading and the last-input time of that participant.
C23_InputFrame ==
    [][InputStep =>
          /\ Len(matches') = Len(matches)
          /\ \E s \in Sockets :
                \A gi \in MatchIndices : MatchSteered(matches[gi], matches'[gi], SockId(s))]_vars

\* the filter has just let an input of s2 through, and s2, eliminated before, has
\* not taken it
C23_Witness ==
    /\ SockId("s2") \in DOMAIN acData
    /\ acData[SockId("s2")].inputHistory # <<>>
    /\ acData[SockId("s2")].inputHistory[Len(acData[SockId("s2")].inputHistory)].timestamp = now
    /\ \E gi \in MatchIndices :
          \E i \in PlayerIndices(matches[gi]) :
              /\ matches[gi].players[i].id = SockId("s2")
              /\ ~matches[gi].players[i].alive
              /\ matches[gi].players[i].lastInputTime < now

\* consecutive entries of the history h are at least MIN_INPUT_DELAY apart
Spaced(h) ==
    \A k \in 1..(Len(h) - 1) : h[k + 1].timestamp - h[k].timestamp >= MIN_INPUT_DELAY

\* an input of id at the time of this step comes less than MIN_INPUT_DELAY after
\* the last input of id that was let through, and id is not flagged
Early(id) ==
    /\ id \in DOMAIN acData
    /\ ~acData[id].flagged
    /\ acData[id].inputHistory # <<>>
    /\ now' - acData[id].inputHistory[Len(acData[id].inputHistory)].timestamp < MIN_INPUT_DELAY

\* the handler of this step has sent a warning to id
WarningTo(id) ==
    \E k \in 1..Len(out') : out'[k].event = "warning" /\ out'[k].to = {id}

\* no participant of id has changed in this step
Untouched(id) ==
    \A gi \in MatchIndices :
        \A i \in PlayerIndices(matches[gi]) :
            matches[gi].players[i].id = id => matches'[gi].players[i] = matches[gi].players[i]

\* C24: the inputs that the filter has let through for a participant are at least
\* 50 ms apart, each from the one before; an input of a participant that is not
\* flagged, less than 50 ms after its last input that was let through, is
\* rejected: it is not recorded in the history, does not reach the match, and the
\* warning counter grows by exactly one (an input that the gateway has refused
\* before the filter changes nothing at all).
C24_InputSpacing ==
    [][/\ \A id \in DOMAIN acData' : Spaced(acData'[id].inputHistory)
       /\ InputStep =>
             \A s \in Sockets :
                Early(SockId(s)) =>
                   /\ HistoryAfter(SockId(s)) = HistoryOf(SockId(s))
                   /\ Untouched(SockId(s))
                   /\ \/ /\ WarningTo(SockId(s))
                         /\ acData'[SockId(s)].warningCount = acData[SockId(s)].warningCount + 1
                      \/ acData' = acData /\ out' = <<>>]_vars

\* an input of s2 that came too early has just been rejected with a warning
C24_Witness ==
    /\ SockId("s2") \in DOMAIN acData
    /\ acData[SockId("s2")].warningCount >= 1
    /\ ~acData[SockId("s2")].flagged
    /\ Len(acData[SockId("s2")].inputHistory) >= 2
    /\ now - acData[SockId("s2")].inputHistory[Len(acData[SockId("s2")].inputHistory)].timestamp
          \in 1..(MIN_INPUT_DELAY - 1)
    /\ \E k \in OutEvents("warning") : out[k].to = {SockId("s2")}

\* the socket of an id of the filter has been disconnected in this step
Cleared(id) == \E s \in Sockets : SockId(s) = id /\ DisconnectOf(s)

\* C25: a participant whose warning counter has reached 3 is flagged, and the
\* counter never exceeds 3; from then on, until the disconnect clears its data, the
\* flag, the counter and the history stay as they are, every input of it is
\* rejected, and no input step changes its participant in a match.
C25_FlaggedForGood ==
    [][/\ \A id \in DOMAIN acData' :
             /\ acData'[id].warningCount <= MAX_WARNINGS
             /\ acData'[id].flagged <=> acData'[id].warningCount = MAX_WARNINGS
       /\ \A id \in DOMAIN acData :
             acData[id].flagged =>
                /\ IF id \in DOMAIN acData' THEN acData'[id] = acData[id] ELSE Cleared(id)
                /\ InputStep => Untouched(id)]_vars

\* s2 is flagged, and an input of s2 that came in time has just been rejected
C25_Witness ==
    /\ SockId("s2") \in DOMAIN acData
    /\ acData[SockId("s2")].flagged
    /\ acData[SockId("s2")].warningCount = MAX_WARNINGS
    /\ acData[SockId("s2")].inputHistory # <<>>
    /\ now - acData[SockId("s2")].inputHistory[Len(acData[SockId("s2")].inputHistory)].timestamp
          >= MIN_INPUT_DELAY
    /\ \E k \in OutEvents("warning") : out[k].to = {SockId("s2")}

\* the filter holds id as flagged
Flagged(id) == id \in DOMAIN acData /\ acData[id].flagged

\* this step is an input of the script, sent by socket s
ScriptedInput(s) ==
    /\ InputStep
    /\ ScriptLeft
    /\ env.script[sent.events + 1].socket = s

\* C26: a participant that sends well-formed inputs every 20 ms is flagged by the
\* filter no later than its 20th input, and every input it sends once it is
\* flagged is rejected: a warning is sent, its data in the filter stay as they
\* are, and no match changes.
C26_CadenceFlagged ==
    [][/\ (sent'.inputs >= 20 /\ conn'["s2"] = "up")
             => (SockId("s2") \in DOMAIN acData' /\ acData'[SockId("s2")].flagged)
       /\ (ScriptedInput("s2") /\ Flagged(SockId("s2")))
             => /\ WarningTo(SockId("s2"))
                /\ acData' = acData
                /\ matches' = matches]_vars

\* s2 has sent all the inputs of its cadence, it was flagged before the last of
\* them, and the last one has been rejected
C26_Witness ==
    /\ sent.inputs = CadenceInputs
    /\ sent.events = Len(env.script)
    /\ env.script[Len(env.script)].socket = "s2"
    /\ now = env.script[Len(env.script)].at
    /\ Flagged(SockId("s2"))
    /\ \E k \in OutEvents("warning") : out[k].to = {SockId("s2")}

\* the verdict of the filter on the first input of a participant it has never seen
FirstVerdict(direction, t) == validateInput(NewPlayerData, direction, t)

\* C27: when the disconnect of a socket has cleared its data, the filter holds no
\* history, no warning count and no flag for its id, also when it was flagged
\* before, and as long as the socket is gone: an input of that id would be judged
\* as the first input of a participant never seen.
C27_ClearedOnDisconnect ==
    [][\A s \in Sockets :
          /\ conn'[s] = "gone" => SockId(s) \notin DOMAIN acData'
          /\ DisconnectOf(s) =>
                \A d \in Directions :
                   /\ validateInput(playerDataOf(SockId(s))', d, now') = FirstVerdict(d, now')
                   /\ FirstVerdict(d, now').ok]_vars

\* s2 has sent all the inputs of its cadence, which have it flagged, and has left;
\* the filter holds nothing for it
C27_Witness ==
    /\ conn["s2"] = "gone"
    /\ sent.inputs >= CadenceInputs
    /\ sent.events > Len(env.script)
    /\ SockId("s2") \notin DOMAIN acData

\* this step is an input of the script whose direction is none of the four tokens
MalformedInput ==
    /\ InputStep
    /\ ScriptLeft
    /\ env.script[sent.events + 1].arg \notin {"up", "down", "left", "right"}

JoinStep == sent'.joins = sent.joins + 1

\* the join of id has put id into the pool of the default mode, and has put
\* nobody into any other pool
PlacedInDefault(id) ==
    /\ id \in Ids(lobbies'[DEFAULT_MODE])
    /\ playerToLobby'[id] = DEFAULT_MODE
    /\ DOMAIN lobbies' = DOMAIN lobbies
    /\ \A md \in DOMAIN lobbies : md # DEFAULT_MODE => lobbies'[md] = lobbies[md]

\* C29: a join request that names no mode, or a mode that is not in the catalog,
\* does not fail: lobby_joined is sent and no error, the participant is put into
\* the pool of the default mode 'arena', and the join puts it into no other pool.
C29_DefaultMode ==
    [][JoinStep =>
          /\ JoinedEvents # {}
          /\ \A k \in 1..Len(out') : out'[k].event # "error"
          /\ \A k \in JoinedEvents :
                out'[k].data.modeId \notin (ModeIds \ {DEFAULT_MODE})
                   => PlacedInDefault(out'[k].data.playerId)]_vars

\* this step is a tick of the active match gi
TickOf(gi) ==
    /\ matches[gi].state = "active"
    /\ matches'[gi].tickCounter = matches[gi].tickCounter + 1

\* participant i of match gi lives and consumes a full-cell step in this tick: its
\* subStep and the speed of this tick add up to 1 or more
Steps(gi, i) ==
    /\ matches[gi].players[i].alive
    /\ FLe(FOne, FAdd(matches[gi].players[i].subStep, matches'[gi].gameSpeed))

\* the cell the step of participant i leads to, along the heading it has in this tick
Destination(gi, i) ==
    <<matches[gi].players[i].position[1] + matches'[gi].players[i].direction[1],
      matches[gi].players[i].position[2] + matches'[gi].players[i].direction[2]>>

\* the trail cells of all participants when participant i takes its step: the
\* participants before it have taken theirs
CellsAtTurn(gi, i) ==
    UNION ({TrailCells(matches'[gi].players[j]) : j \in 1..(i - 1)}
             \cup {TrailCells(matches[gi].players[j]) : j \in i..Len(matches[gi].players)})

\* the destination of participant i is outside the inset of this tick, or on a trail
Blocked(gi, i) ==
    \/ OutOfArena(matches[gi], Destination(gi, i)[1], Destination(gi, i)[2])
    \/ Destination(gi, i) \in CellsAtTurn(gi, i)

\* C30: a living participant that consumes a full-cell step in a tick is eliminated,
\* with its position and its trail unchanged, if and only if the destination cell
\* is outside the current inset or is a trail cell of any participant, living or
\* eliminated, its own included; otherwise its position becomes the destination
\* and the destination is appended to its trail.
C30_StepOrEliminated ==
    [][\A gi \in MatchIndices :
          TickOf(gi) =>
             \A i \in PlayerIndices(matches[gi]) :
                Steps(gi, i) =>
                   IF Blocked(gi, i)
                   THEN /\ ~matches'[gi].players[i].alive
                        /\ matches'[gi].players[i].position = matches[gi].players[i].position
                        /\ matches'[gi].players[i].trail = matches[gi].players[i].trail
                   ELSE /\ matches'[gi].players[i].alive
                        /\ matches'[gi].players[i].position = Destination(gi, i)
                        /\ matches'[gi].players[i].trail
                              = Append(matches[gi].players[i].trail, Destination(gi, i))]_vars

\* a tick of the duel has just moved one participant into a free cell and has
\* eliminated the other one, whose destination is a trail cell inside the inset
C30_Witness ==
    \E gi \in MatchIndices :
        /\ matches[gi].mode = "duel"
        /\ \A s \in Sockets : conn[s] # "gone"
        /\ \E k \in OutEvents("player_eliminated") : out[k].game = matches[gi].id
        /\ \E i, j \in PlayerIndices(matches[gi]) :
              /\ ~matches[gi].players[i].alive
              /\ OnTrail(matches[gi], CellAhead(matches[gi].players[i])[1],
                         CellAhead(matches[gi].players[i])[2])
              /\ matches[gi].players[j].alive
              /\ matches[gi].players[j].survivalTime = matches[gi].tickCounter
              /\ matches[gi].players[j].trail[Len(matches[gi].players[j].trail)]
                    = matches[gi].players[j].position

\* the speed_boost events of this step for the match of this id
SpeedEvents(gameId) ==
    {k \in 1..Len(out') : out'[k].event = "speed_boost" /\ out'[k].game = gameId}

\* C31: the speed multiplier of a match never decreases and stays between the
\* start value 0.3 and the ceiling 0.7; it rises by at most one increment of 0.05
\* at a time, in a tick that comes at least 5 s after the start of the loop or
\* after the rise before; a speed-changed event is emitted in exactly the steps
\* in which the value changes, once, and never once the ceiling is reached.
C31_SpeedRamp ==
    /\ [](\A gi \in MatchIndices :
             /\ FLe(MIN_SPEED, matches[gi].gameSpeed)
             /\ FLe(matches[gi].gameSpeed, MAX_SPEED))
    /\ [][\A gi \in MatchIndices :
             /\ FLe(matches[gi].gameSpeed, matches'[gi].gameSpeed)
             /\ FLe(matches'[gi].gameSpeed, FAdd(matches[gi].gameSpeed, SPEED_INCREMENT))
             /\ matches'[gi].gameSpeed # matches[gi].gameSpeed
                  => /\ TickOf(gi)
                     /\ now' - matches[gi].lastSpeedIncreaseTime >= SPEED_INCREASE_INTERVAL
                     /\ matches'[gi].lastSpeedIncreaseTime = now'
             /\ SpeedEvents(matches[gi].id) # {}
                  <=> matches'[gi].gameSpeed # matches[gi].gameSpeed
             /\ Cardinality(SpeedEvents(matches[gi].id)) <= 1
             /\ matches[gi].gameSpeed = MAX_SPEED => SpeedEvents(matches[gi].id) = {}]_vars

\* a match runs at the ceiling, and the speed check that came 5 s after the
\* ceiling was reached has passed
C31_Witness ==
    \E gi \in MatchIndices :
        /\ matches[gi].state = "active"
        /\ matches[gi].gameSpeed = MAX_SPEED
        /\ matches[gi].lastSpeedIncreaseTime - matches[gi].startTime
              >= COUNTDOWN_MS + 9 * SPEED_INCREASE_INTERVAL

\* n * a, exact
RECURSIVE Times(_, _)
Times(a, n) == IF n = 0 THEN FZero ELSE FAddExact(a, Times(a, n - 1))

\* the arena size is below percent % of the grid size (percent a multiple of 5)
BelowPercent(g, percent) == FLt(Times(g.arenaSize, 20), FInt((percent \div 5) * g.gridSize))

\* the band of the arena-to-grid size ratio
Band(g) ==
    IF BelowPercent(g, 30) THEN "panic"
    ELSE IF BelowPercent(g, 50) THEN "danger"
    ELSE IF BelowPercent(g, 70) THEN "warning"
    ELSE "stable"

\* the arena_phase events of this step for the match of this id
PhaseEvents(gameId) ==
    {k \in 1..Len(out') : out'[k].event = "arena_phase" /\ out'[k].game = gameId}

\* C32: the shrink phase of a match always equals the band of the arena-to-grid
\* size ratio (stable at 70 % or more, warning below 70 %, danger below 50 %, panic
\* below 30 %), and a phase-changed event is emitted in a step exactly when the
\* phase after the step differs from the phase before it: once, in a tick, and
\* with the new phase.
C32_PhaseIsBand ==
    /\ [](\A gi \in MatchIndices : matches[gi].shrinkPhase = Band(matches[gi]))
    /\ [][\A gi \in MatchIndices :
             /\ PhaseEvents(matches[gi].id) # {}
                  <=> matches'[gi].shrinkPhase # matches[gi].shrinkPhase
             /\ Cardinality(PhaseEvents(matches[gi].id)) <= 1
             /\ \A k \in PhaseEvents(matches[gi].id) :
                   TickOf(gi) /\ out'[k].data.phase = matches'[gi].shrinkPhase]_vars

\* after more than 900 ticks the arena of a running match is below 95 % of the
\* grid, and its phase is the band of that ratio
C32_Witness ==
    \E gi \in MatchIndices :
        /\ matches[gi].state = "active"
        /\ matches[gi].tickCounter > 900
        /\ BelowPercent(matches[gi], 95)
        /\ matches[gi].shrinkPhase = Band(matches[gi])

\* the standard deviation of the integers of iv is below PATTERN_STDDEV:
\*   sum((v - mean)^2) / n < 100  <=>  n * sum(v^2) - sum(v)^2 < 100 * n^2
LowDeviation(iv) ==
    Len(iv) * SumSeq([i \in 1..Len(iv) |-> iv[i] * iv[i]]) - SumSeq(iv) * SumSeq(iv)
       < PATTERN_STDDEV * PATTERN_STDDEV * Len(iv) * Len(iv)

\* the history holds at least 10 inputs whose intervals deviate by less than 10 ms
Uniform(h) ==
    /\ Len(h) >= PATTERN_MIN_INPUTS
    /\ LowDeviation([i \in 1..(Len(h) - 1) |-> h[i + 1].timestamp - h[i].timestamp])

\* this step is a well-formed input of the script, sent by the socket of id, which
\* is not flagged, at least MIN_INPUT_DELAY after the last input in its history
TimelyInput(id) ==
    /\ \E s \in Sockets : SockId(s) = id /\ ScriptedInput(s)
    /\ env.script[sent.events + 1].arg \in Directions
    /\ ~Flagged(id)
    /\ ~Early(id)

\* the input of this step was rejected with one more warning for id
RejectedWithWarning(id) ==
    /\ HistoryAfter(id) = HistoryOf(id)
    /\ id \in DOMAIN acData /\ id \in DOMAIN acData'
    /\ acData'[id].warningCount = acData[id].warningCount + 1

\* C33: an input of a participant that is not flagged, that passes the timing and
\* the direction check, is rejected with one more warning exactly when the
\* recorded history of the participant holds at least 10 inputs whose
\* inter-arrival intervals have a standard deviation below 10 ms, and is recorded
\* otherwise; the recorded history never holds more than 20 entries.
C33_UniformRejected ==
    [][/\ \A id \in DOMAIN acData' : Len(acData'[id].inputHistory) <= HISTORY_LIMIT
       /\ \A s \in Sockets :
             TimelyInput(SockId(s)) =>
                IF Uniform(HistoryOf(SockId(s)))
                THEN RejectedWithWarning(SockId(s))
                ELSE Accepted(SockId(s))]_vars

\* the headings a participant may take without reversing
Candidates(p) ==
    {d \in {<<0, -1>>, <<0, 1>>, <<-1, 0>>, <<1, 0>>} : d # Reverse(p.direction)}

\* the score the controller gives heading d of participant i of match gi at the
\* decision of this tick: positions, trails and arena are those before the moves
ScoreAt(gi, i, d) == scoreDirection(collisionView(matches[gi]), matches[gi].players[i], d)

\* participant i of match gi is a living bot
LivingBot(gi, i) == matches[gi].players[i].isBot /\ matches[gi].players[i].alive

\* C34: whenever the bot controller changes the heading of a bot, the new heading
\* is a non-reversing candidate of the highest score among the candidates, that
\* score is positive, and the cell next to the bot in the new heading is inside the
\* inset and on no trail at decision time; when no candidate has a positive score,
\* the heading is left unchanged.
C34_BotTurns ==
    [][\A gi \in MatchIndices :
          \A i \in PlayerIndices(matches[gi]) :
             LivingBot(gi, i) =>
                /\ matches'[gi].players[i].direction # matches[gi].players[i].direction
                     => /\ TickOf(gi)
                        /\ matches'[gi].players[i].direction \in Candidates(matches[gi].players[i])
                        /\ \A d \in Candidates(matches[gi].players[i]) :
                              ~SLt(ScoreAt(gi, i, matches'[gi].players[i].direction),
                                   ScoreAt(gi, i, d))
                        /\ SLt(SInt(0), ScoreAt(gi, i, matches'[gi].players[i].direction))
                        /\ ~checkCollision(matches[gi],
                                           matches[gi].players[i].position[1]
                                              + matches'[gi].players[i].direction[1],
                                           matches[gi].players[i].position[2]
                                              + matches'[gi].players[i].direction[2])
                /\ (\A d \in Candidates(matches[gi].players[i]) :
                       ~SLt(SInt(0), ScoreAt(gi, i, d)))
                     => matches'[gi].players[i].direction = matches[gi].players[i].direction]_vars

\* a living bot has turned: two consecutive moves of its trail differ in heading
C34_Witness ==
    \E gi \in MatchIndices :
        \E i \in PlayerIndices(matches[gi]) :
            /\ LivingBot(gi, i)
            /\ \E k \in 1..(Len(matches[gi].players[i].trail) - 2) :
                  MoveHeading(matches[gi].players[i], k)
                     # MoveHeading(matches[gi].players[i], k + 1)

\* ------------------------------------------------------------------------
\* C35: the participants of a match

\* the match holds one participant per place of its mode, under distinct keys
FullHouse(g) ==
    /\ Len(g.players) = GAME_MODES[g.mode].players
    /\ Cardinality(Ids(g.players)) = Len(g.players)

\* no step removes a match from the matches created, and no step changes the
\* keys of the participant map of a match
KeysKept(gi) == IdSeq(matches'[gi].players) = IdSeq(matches[gi].players)

\* C35: every match created by the coordinator has exactly as many
\* participants as its mode requires, under distinct keys, and the keys of its
\* participant map never change afterwards
C35_FullAndFixed ==
    [][/\ Len(matches') >= Len(matches)
       /\ \A gi \in 1..Len(matches') : FullHouse(matches'[gi])
       /\ \A gi \in MatchIndices : KeysKept(gi)]_vars

\* a match that was filled with bots after the wait, whose human participant
\* has left and is still in the map, eliminated
C35_Witness ==
    \E gi \in MatchIndices : \E i, j \in PlayerIndices(matches[gi]) :
        /\ matches[gi].players[i].isBot
        /\ ~matches[gi].players[j].isBot
        /\ conn[matches[gi].players[j].id[2]] = "gone"
        /\ ~matches[gi].players[j].alive
        /\ FullHouse(matches[gi])

\* ------------------------------------------------------------------------
\* C36: the heading a bot holds after its decision

\* the controller reconsiders the heading of participant i of match gi in this step
Decides(gi, i) ==
    /\ LivingBot(gi, i)
    /\ matches'[gi].botTick = matches[gi].botTick + 1
    /\ (matches'[gi].botTick + botOffset(matches[gi].players[i].id)) % BOT_THINK_INTERVAL = 0

\* the cell next to participant i of match gi in heading d is inside the inset
\* and on no trail, as the controller sees the match before the moves of the tick
FreeAhead(gi, i, d) ==
    ~isCollision(collisionView(matches[gi]),
                 matches[gi].players[i].position[1] + d[1],
                 matches[gi].players[i].position[2] + d[2])

\* C36: when a bot decides and at least one non-reversing candidate heading has
\* a collision-free next cell, the heading the bot holds after the decision has
\* a collision-free next cell
C36_SafeHeading ==
    [][\A gi \in MatchIndices :
          \A i \in PlayerIndices(matches[gi]) :
             (/\ Decides(gi, i)
              /\ \E d \in Candidates(matches[gi].players[i]) : FreeAhead(gi, i, d))
                => FreeAhead(gi, i, matches'[gi].players[i].direction)]_vars

\* ------------------------------------------------------------------------
\* C37: every match ends

\* match gi is in play
InPlay(gi) == Len(matches) >= gi /\ matches[gi].state = "active"

\* C37: every match that has become active eventually becomes finished, while
\* the timers of the event loop fire
C37_ActiveFinishes == \A gi \in 1..MaxMatches : InPlay(gi) ~> Finished(gi)

\* a match has finished after its human participant has left and a bot has been
\* eliminated, with ticks to spare
C37_Witness ==
    \E gi \in MatchIndices :
        /\ matches[gi].state = "finished"
        /\ matches[gi].tickCounter < env.maxTick
        /\ \E i, j \in PlayerIndices(matches[gi]) :
              /\ ~matches[gi].players[i].isBot
              /\ conn[matches[gi].players[i].id[2]] = "gone"
              /\ matches[gi].players[j].isBot
              /\ ~matches[gi].players[j].alive

\* ------------------------------------------------------------------------
\* C38: after a rejection by the bot-pattern check

\* the history the filter holds for id is one the bot-pattern check rejects
Judged(id) == id \in DOMAIN acData /\ detectBotPattern(acData[id])

JudgedAfter(id) == id \in DOMAIN acData' /\ detectBotPattern(acData'[id])

\* the input of this step was rejected by the bot-pattern check: it passed the
\* flag, the timing and the direction check, and was rejected with a warning
PatternRejected(id) == TimelyInput(id) /\ RejectedWithWarning(id)

\* C38: an input that the bot-pattern check rejects leaves the judged history
\* as it is, and while the filter holds such a history for a participant no input
\* of the participant is accepted and the history stays, until the disconnect
\* of the participant clears its data: once rejected by the bot-pattern check,
\* never accepted again before the disconnect.
C38_PatternForGood ==
    [][\A s \in Sockets :
          /\ PatternRejected(SockId(s)) => (Judged(SockId(s)) /\ JudgedAfter(SockId(s)))
          /\ Judged(SockId(s)) =>
                /\ ~Accepted(SockId(s))
                /\ HistoryAfter(SockId(s)) # HistoryOf(SockId(s)) => Cleared(SockId(s))
                /\ JudgedAfter(SockId(s)) \/ Cleared(SockId(s))]_vars

\* a participant with a history that the bot-pattern check rejects has been
\* rejected twice or more
C38_Witness ==
    \E id \in DOMAIN acData :
        /\ detectBotPattern(acData[id])
        /\ acData[id].warningCount >= 2

\* ------------------------------------------------------------------------
\* C39: the living participants move in step

\* the living participants of match gi after this step
LivingAfter(gi) == {i \in PlayerIndices(matches'[gi]) : matches'[gi].players[i].alive}

\* the full-cell moves participant i of match gi has made in this step
MovesOf(gi, i) == Len(matches'[gi].players[i].trail) - Len(matches[gi].players[i].trail)

\* C39: after every step all living participants of a match hold the same
\* fractional step counter, which is below 1, and the same survival-tick count;
\* in every step they all make the same number of full-cell moves, at most one.
C39_InStep ==
    [][\A gi \in MatchIndices :
          \A i \in LivingAfter(gi) :
             /\ FLt(matches'[gi].players[i].subStep, FOne)
             /\ MovesOf(gi, i) \in {0, 1}
             /\ \A j \in LivingAfter(gi) :
                   /\ matches'[gi].players[j].subStep = matches'[gi].players[i].subStep
                   /\ matches'[gi].players[j].survivalTime = matches'[gi].players[i].survivalTime
                   /\ MovesOf(gi, j) = MovesOf(gi, i)]_vars

\* two participants are alive at the highest speed, with a step counter above
\* zero and a survival-tick count that is the tick of their last move
C39_Witness ==
    \E gi \in MatchIndices :
        /\ matches[gi].gameSpeed = MAX_SPEED
        /\ \E i, j \in PlayerIndices(matches[gi]) :
              /\ i # j
              /\ matches[gi].players[i].alive /\ matches[gi].players[j].alive
              /\ matches[gi].players[i].subStep # FZero
              /\ matches[gi].players[i].survivalTime > 0
              /\ matches[gi].players[i].survivalTime < matches[gi].tickCounter

\* ------------------------------------------------------------------------
\* C40: the trails

\* the number of trail entries of the first n participants
RECURSIVE TrailTotal(_, _)
TrailTotal(players, n) ==
    IF n = 0 THEN 0 ELSE Len(players[n].trail) + TrailTotal(players, n - 1)

\* the cells on the trails of the match
AllTrailCells(g) == UNION {TrailCells(g.players[i]) : i \in PlayerIndices(g)}

\* C40: in every state of a match no cell occurs twice among the trail entries
\* of all its participants, neither in one trail nor in two, and the last trail
\* entry of every participant is its position.
C40_TrailsDisjoint ==
    \A gi \in MatchIndices :
        /\ Cardinality(AllTrailCells(matches[gi]))
              = TrailTotal(matches[gi].players, Len(matches[gi].players))
        /\ \A i \in PlayerIndices(matches[gi]) :
              /\ matches[gi].players[i].trail # <<>>
              /\ matches[gi].players[i].trail[Len(matches[gi].players[i].trail)]
                    = matches[gi].players[i].position

\* a participant has been eliminated in front of a cell of a trail, its own or
\* another, after it has moved
C40_Witness ==
    \E gi \in MatchIndices :
        \E i \in PlayerIndices(matches[gi]) :
            /\ ~matches[gi].players[i].alive
            /\ Len(matches[gi].players[i].trail) > 1
            /\ CellAhead(matches[gi].players[i]) \in AllTrailCells(matches[gi])

====
